---- MODULE Spec2Model ----
(***************************************************************************)
(* Model of the weightlifting backend: the session / template services    *)
(* (src/backend/src/services/session_services.py, template_services.py)   *)
(* and the statistics engine (src/backend/src/services/stats_services.py).*)
(*                                                                         *)
(* Tables are sequences of rows, a row's id is its index (uuid4 ids are   *)
(* never reused).  Instants are integers, DayLen instants make a calendar *)
(* day.  Nullable columns hold NULL.  Weights are whole numbers; an        *)
(* estimated one-rep-max is an exact fraction [n, d].  Unordered queries   *)
(* return rows in id order.  Free-text columns (notes, tempo, rpe) and the *)
(* created_at / updated_at audit stamps are left out.                      *)
(***************************************************************************)
EXTENDS Integers, Sequences, FiniteSets, TLC

VARIABLES now, sessions, session_exercises, sets,
          templates, template_exercises, template_sets, resp, pending

vars == <<now, sessions, session_exercises, sets,
          templates, template_exercises, template_sets, resp, pending>>

sessionTables == <<sessions, session_exercises, sets>>
templateTables == <<templates, template_exercises, template_sets>>

(* ------------------------------ bounds -------------------------------- *)
MaxTime == 2
MaxSessions == 2
MaxSessionExercises == 2
MaxSets == 2
DayLen == 2

(* ----------------------------- value sets ----------------------------- *)
NULL == -1
Users == {1, 2}

HTTP_200_OK == 200
HTTP_201_CREATED == 201
HTTP_400_BAD_REQUEST == 400
HTTP_404_NOT_FOUND == 404
HTTP_500_INTERNAL_SERVER_ERROR == 500

\* exercise reference data: id -> row
Exercise ==
  [e \in {1, 2} |->
     IF e = 1 THEN [name |-> "bench", target_muscle_group |-> "chest"]
              ELSE [name |-> "squat", target_muscle_group |-> "legs"]]

ExerciseIds == DOMAIN Exercise
\* ids a request may carry: the stored exercises and one unknown id
RequestExerciseIds == ExerciseIds \cup {3}

\* Python truthiness of a nullable number: None and 0 are falsy
Truthy(x) == x # NULL /\ x # 0

Min2(a, b) == IF a <= b THEN a ELSE b

\* ids of S in ascending (key, id) order
RECURSIVE SortIds(_, _)
SortIds(S, key) ==
  IF S = {} THEN <<>>
  ELSE LET m == CHOOSE x \in S :
                  \A y \in S : key[x] < key[y] \/ (key[x] = key[y] /\ x <= y)
       IN  <<m>> \o SortIds(S \ {m}, key)

\* the list left in the order it was built
StableSort_Unsorted(seq, key) == seq

\* list.sort(key=...): stable, ascending
StableSort(seq, key) ==
  LET perm == SortIds(DOMAIN seq, key) IN [i \in DOMAIN seq |-> seq[perm[i]]]

\* list.sort(key=..., reverse=True): stable, descending
StableSortDesc(seq, key) ==
  StableSort(seq, [i \in DOMAIN seq |-> 0 - key[i]])

RECURSIVE SumSeq(_)
SumSeq(seq) == IF seq = <<>> THEN 0 ELSE Head(seq) + SumSeq(Tail(seq))


\* the stored relational state handed to the read side
DB == [sessions |-> sessions, session_exercises |-> session_exercises, sets |-> sets]

(* ------------------------------ clock --------------------------------- *)
\* the clock moves on by step instants, up to the horizon
Tick(step, horizon) ==
  /\ now + step <= horizon
  /\ now' = now + step
  /\ UNCHANGED <<sessionTables, templateTables, resp, pending>>

\* the HTTP status the handler op answers with; a handler that runs from its
\* first query to its answer in one step leaves the requests in flight alone
Respond(op, code) == resp' = code /\ UNCHANGED pending

(* ------------------------- session services --------------------------- *)
\* get_session_by_id: the row exists and belongs to the user
get_session_by_id(session_id, user_id) ==
  /\ session_id \in DOMAIN sessions
  /\ sessions[session_id].user_id = user_id

\* the session exercise with this id inside this session
FindSessionExercise(exercise_id, session_id) ==
  /\ exercise_id \in DOMAIN session_exercises
  /\ session_exercises[exercise_id].workout_session_id = session_id

NewSession(user_id, name) ==
  [user_id |-> user_id, name |-> name, started_at |-> now, completed_at |-> NULL,
   active_duration |-> NULL, total_rest_duration |-> NULL, template_ids |-> <<>>]

NewSet(se_id, set_number, reps, weight, is_warmup, tset) ==
  [workout_session_exercise_id |-> se_id, set_number |-> set_number,
   reps_completed |-> reps, weight |-> weight, is_warmup |-> is_warmup,
   rest_start_time |-> NULL, rest_end_time |-> NULL, actual_rest_time |-> NULL,
   workout_template_set_id |-> tset]

NewSessionExercise(session_id, exercise_id, order, texercise, sgid, sorder) ==
  [workout_session_id |-> session_id, exercise_id |-> exercise_id, order |-> order,
   workout_template_exercise_id |-> texercise,
   superset_group_id |-> sgid, superset_order |-> sorder,
   started_at |-> NULL, completed_at |-> NULL, active_duration |-> NULL]

(* ------------------------- template services -------------------------- *)
MaxTemplates == 1
MaxTemplateExercises == 1
MaxTemplateSets == 1

NullStr == "null"
Orders == {1}
SetNumbers == {1, 2}
TargetReps == {8}
TargetWeights == {NULL, 100}

Live(table) == {i \in DOMAIN table : ~table[i].deleted}

\* get_template_by_id: the row exists and belongs to the user
get_template_by_id(template_id, user_id) ==
  /\ template_id \in Live(templates)
  /\ templates[template_id].user_id = user_id

FindTemplateExercise(exercise_id, template_id) ==
  /\ exercise_id \in Live(template_exercises)
  /\ template_exercises[exercise_id].workout_template_id = template_id

FindTemplateSet(set_id, exercise_id) ==
  /\ set_id \in Live(template_sets)
  /\ template_sets[set_id].workout_template_exercise_id = exercise_id

TemplateExercisesOf(template_id) ==
  {e \in Live(template_exercises) : template_exercises[e].workout_template_id = template_id}

TemplateSetsOf(exercise_id) ==
  {x \in Live(template_sets) : template_sets[x].workout_template_exercise_id = exercise_id}

\* foreign keys without ON DELETE (migration 5eced74875a5): a referenced row
\* cannot be deleted
TemplateSetReferenced(x) ==
  \E i \in DOMAIN sets : sets[i].workout_template_set_id = x
TemplateExerciseReferenced(e) ==
  \E i \in DOMAIN session_exercises : session_exercises[i].workout_template_exercise_id = e
TemplateReferenced(t) ==
  \E i \in DOMAIN sessions : \E k \in DOMAIN sessions[i].template_ids :
     sessions[i].template_ids[k] = t

get_template_with_exercises(user_id, template_id) ==
  /\ IF get_template_by_id(template_id, user_id)
       THEN Respond("get_template", HTTP_200_OK)
       ELSE Respond("get_template", HTTP_404_NOT_FOUND)
  /\ UNCHANGED <<now, sessionTables, templateTables>>

create_template(user_id, name) ==
  /\ Len(templates) < MaxTemplates
  /\ templates' = Append(templates, [user_id |-> user_id, name |-> name, deleted |-> FALSE])
  /\ Respond("create_template", HTTP_201_CREATED)
  /\ UNCHANGED <<now, sessionTables, template_exercises, template_sets>>

update_template(user_id, template_id, name) ==
  /\ IF ~get_template_by_id(template_id, user_id)
       THEN /\ Respond("update_template", HTTP_404_NOT_FOUND)
            /\ UNCHANGED templates
       ELSE /\ templates' = [templates EXCEPT ![template_id].name =
                               IF name # NullStr THEN name ELSE @]
            /\ Respond("update_template", HTTP_200_OK)
  /\ UNCHANGED <<now, sessionTables, template_exercises, template_sets>>

delete_template(user_id, template_id) ==
  /\ IF ~get_template_by_id(template_id, user_id)
       THEN /\ Respond("delete_template", HTTP_404_NOT_FOUND)
            /\ UNCHANGED templateTables
       ELSE IF \/ \E e \in TemplateExercisesOf(template_id) :
                     \/ TemplateExerciseReferenced(e)
                     \/ \E x \in TemplateSetsOf(e) : TemplateSetReferenced(x)
               \/ TemplateReferenced(template_id)
       THEN /\ Respond("delete_template", HTTP_500_INTERNAL_SERVER_ERROR)
            /\ UNCHANGED templateTables
       ELSE /\ template_sets' =
                 [x \in DOMAIN template_sets |->
                    IF template_sets[x].workout_template_exercise_id
                          \in TemplateExercisesOf(template_id)
                      THEN [template_sets[x] EXCEPT !.deleted = TRUE]
                      ELSE template_sets[x]]
            /\ template_exercises' =
                 [e \in DOMAIN template_exercises |->
                    IF template_exercises[e].workout_template_id = template_id
                      THEN [template_exercises[e] EXCEPT !.deleted = TRUE]
                      ELSE template_exercises[e]]
            /\ templates' = [templates EXCEPT ![template_id].deleted = TRUE]
            /\ Respond("delete_template", HTTP_200_OK)
  /\ UNCHANGED <<now, sessionTables>>

add_exercise_to_template(user_id, template_id, exercise_id, order) ==
  /\ IF ~get_template_by_id(template_id, user_id) \/ exercise_id \notin ExerciseIds
       THEN /\ Respond("add_exercise_to_template", HTTP_404_NOT_FOUND)
            /\ UNCHANGED template_exercises
       ELSE /\ Len(template_exercises) < MaxTemplateExercises
            /\ template_exercises' = Append(template_exercises,
                 [workout_template_id |-> template_id, exercise_id |-> exercise_id,
                  order |-> order, superset_group_id |-> NULL, superset_order |-> NULL,
                  deleted |-> FALSE])
            /\ Respond("add_exercise_to_template", HTTP_200_OK)
  /\ UNCHANGED <<now, sessionTables, templates, template_sets>>

update_template_exercise(user_id, template_id, exercise_id, order, sgid, sorder) ==
  /\ IF ~get_template_by_id(template_id, user_id)
          \/ ~FindTemplateExercise(exercise_id, template_id)
       THEN /\ Respond("update_template_exercise", HTTP_404_NOT_FOUND)
            /\ UNCHANGED template_exercises
       ELSE /\ template_exercises' = [template_exercises EXCEPT ![exercise_id] =
                 [@ EXCEPT !.order = IF order # NULL THEN order ELSE @,
                           !.superset_group_id = IF sgid # NULL THEN sgid ELSE @,
                           !.superset_order = IF sorder # NULL THEN sorder ELSE @]]
            /\ Respond("update_template_exercise", HTTP_200_OK)
  /\ UNCHANGED <<now, sessionTables, templates, template_sets>>

delete_template_exercise(user_id, template_id, exercise_id) ==
  /\ IF ~get_template_by_id(template_id, user_id)
          \/ ~FindTemplateExercise(exercise_id, template_id)
       THEN /\ Respond("delete_template_exercise", HTTP_404_NOT_FOUND)
            /\ UNCHANGED <<template_exercises, template_sets>>
       ELSE IF \/ TemplateExerciseReferenced(exercise_id)
               \/ \E x \in TemplateSetsOf(exercise_id) : TemplateSetReferenced(x)
       THEN /\ Respond("delete_template_exercise", HTTP_500_INTERNAL_SERVER_ERROR)
            /\ UNCHANGED <<template_exercises, template_sets>>
       ELSE /\ template_sets' =
                 [x \in DOMAIN template_sets |->
                    IF template_sets[x].workout_template_exercise_id = exercise_id
                      THEN [template_sets[x] EXCEPT !.deleted = TRUE]
                      ELSE template_sets[x]]
            /\ template_exercises' = [template_exercises EXCEPT ![exercise_id].deleted = TRUE]
            /\ Respond("delete_template_exercise", HTTP_200_OK)
  /\ UNCHANGED <<now, sessionTables, templates>>

add_set_to_template_exercise(user_id, template_id, exercise_id, set_number, reps, weight, is_warmup) ==
  /\ IF ~get_template_by_id(template_id, user_id)
          \/ ~FindTemplateExercise(exercise_id, template_id)
       THEN /\ Respond("add_set_to_template_exercise", HTTP_404_NOT_FOUND)
            /\ UNCHANGED template_sets
       ELSE IF \E x \in TemplateSetsOf(exercise_id) : template_sets[x].set_number = set_number
       THEN /\ Respond("add_set_to_template_exercise", HTTP_400_BAD_REQUEST)
            /\ UNCHANGED template_sets
       ELSE /\ Len(template_sets) < MaxTemplateSets
            /\ template_sets' = Append(template_sets,
                 [workout_template_exercise_id |-> exercise_id, set_number |-> set_number,
                  target_reps |-> reps, target_weight |-> weight, is_warmup |-> is_warmup,
                  deleted |-> FALSE])
            /\ Respond("add_set_to_template_exercise", HTTP_200_OK)
  /\ UNCHANGED <<now, sessionTables, templates, template_exercises>>

update_template_set(user_id, template_id, exercise_id, set_id, reps, weight, is_warmup) ==
  /\ IF \/ ~get_template_by_id(template_id, user_id)
        \/ ~FindTemplateExercise(exercise_id, template_id)
        \/ ~FindTemplateSet(set_id, exercise_id)
       THEN /\ Respond("update_template_set", HTTP_404_NOT_FOUND)
            /\ UNCHANGED template_sets
       ELSE /\ template_sets' = [template_sets EXCEPT ![set_id] =
                 [@ EXCEPT !.target_reps = IF reps # NULL THEN reps ELSE @,
                           !.target_weight = IF weight # NULL THEN weight ELSE @,
                           !.is_warmup = IF is_warmup # NullStr THEN is_warmup = "true" ELSE @]]
            /\ Respond("update_template_set", HTTP_200_OK)
  /\ UNCHANGED <<now, sessionTables, templates, template_exercises>>

delete_template_set(user_id, template_id, exercise_id, set_id) ==
  /\ IF \/ ~get_template_by_id(template_id, user_id)
        \/ ~FindTemplateExercise(exercise_id, template_id)
        \/ ~FindTemplateSet(set_id, exercise_id)
       THEN /\ Respond("delete_template_set", HTTP_404_NOT_FOUND)
            /\ UNCHANGED template_sets
       ELSE IF TemplateSetReferenced(set_id)
       THEN /\ Respond("delete_template_set", HTTP_500_INTERNAL_SERVER_ERROR)
            /\ UNCHANGED template_sets
       ELSE /\ template_sets' = [template_sets EXCEPT ![set_id].deleted = TRUE]
            /\ Respond("delete_template_set", HTTP_200_OK)
  /\ UNCHANGED <<now, sessionTables, templates, template_exercises>>

\* a fresh superset group id (str(uuid4()) in the source): an id no stored row
\* carries, the least such so that ids no longer stored can be drawn again
UsedGroups ==
  {session_exercises[x].superset_group_id : x \in DOMAIN session_exercises}
    \cup {template_exercises[e].superset_group_id : e \in DOMAIN template_exercises}
FreshGroup ==
  CHOOSE g \in 1..(Len(session_exercises) + Len(template_exercises) + 1) :
     /\ g \notin UsedGroups
     /\ \A h \in 1..(g - 1) : h \in UsedGroups

\* the rows a superset request updates before the first unknown id aborts it
RECURSIVE ApplySuperset(_, _, _, _, _)
ApplySuperset(table, ids, orders, gid, Found) ==
  IF ids = <<>> THEN table
  ELSE IF Head(ids) \notin Found THEN table
  ELSE ApplySuperset([table EXCEPT ![Head(ids)].superset_group_id = gid,
                                   ![Head(ids)].superset_order = Head(orders)],
                     Tail(ids), Tail(orders), gid, Found)

template_create_superset(user_id, template_id, exercise_ids, orders) ==
  /\ IF ~get_template_by_id(template_id, user_id)
       THEN /\ Respond("template_create_superset", HTTP_404_NOT_FOUND)
            /\ UNCHANGED template_exercises
       ELSE IF Len(exercise_ids) # Len(orders)
       THEN /\ Respond("template_create_superset", HTTP_400_BAD_REQUEST)
            /\ UNCHANGED template_exercises
       ELSE IF \E k \in DOMAIN exercise_ids : ~FindTemplateExercise(exercise_ids[k], template_id)
       THEN \* the request aborts before commit: nothing is stored
            /\ Respond("template_create_superset", HTTP_404_NOT_FOUND)
            /\ UNCHANGED template_exercises
       ELSE /\ template_exercises' =
                 ApplySuperset(template_exercises, exercise_ids, orders,
                               FreshGroup, TemplateExercisesOf(template_id))
            /\ Respond("template_create_superset", HTTP_200_OK)
  /\ UNCHANGED <<now, sessionTables, templates, template_sets>>

delete_superset(user_id, template_id, superset_id) ==
  /\ IF \/ ~get_template_by_id(template_id, user_id)
        \/ ~\E e \in TemplateExercisesOf(template_id) :
               template_exercises[e].superset_group_id = superset_id
       THEN /\ Respond("delete_superset", HTTP_404_NOT_FOUND)
            /\ UNCHANGED template_exercises
       ELSE /\ template_exercises' =
                 [e \in DOMAIN template_exercises |->
                    IF e \in TemplateExercisesOf(template_id)
                         /\ template_exercises[e].superset_group_id = superset_id
                      THEN [template_exercises[e] EXCEPT !.superset_group_id = NULL,
                                                         !.superset_order = NULL]
                      ELSE template_exercises[e]]
            /\ Respond("delete_superset", HTTP_200_OK)
  /\ UNCHANGED <<now, sessionTables, templates, template_sets>>

(* ------------------------- requests in flight ------------------------- *)
\* the threads of the server's pool that run a handler in two steps: its
\* queries first, its commit later (sync endpoints, one db session per request)
Workers == {1, 2}

\* pending[w]: what worker w has read and is about to commit
Idle ==
  [op |-> "idle", session_id |-> NULL, exercise_id |-> NULL, set_id |-> NULL,
   set_number |-> NULL, reps |-> NULL, weight |-> NULL, is_warmup |-> NullStr,
   completed_at |-> NULL, total_rest_duration |-> NULL]

(* ----------------------- session services (cont.) --------------------- *)
SecondsPerInstant == 86400 \div DayLen

\* copy one template exercise's sets (ordered by set_number) under session exercise se_id
RECURSIVE CopySets(_, _, _)
CopySets(tsids, se_id, acc) ==
  IF tsids = <<>> THEN acc
  ELSE LET ts == template_sets[Head(tsids)]
       IN CopySets(Tail(tsids), se_id,
                   Append(acc, NewSet(se_id, ts.set_number, 0, ts.target_weight,
                                      ts.is_warmup, Head(tsids))))

\* copy the template exercises (ordered by order) into session sid
RECURSIVE CopyExercises(_, _, _)
CopyExercises(teids, sid, acc) ==
  IF teids = <<>> THEN acc
  ELSE LET te == template_exercises[Head(teids)]
           se_id == Len(acc.session_exercises) + 1
           tsids == SortIds(TemplateSetsOf(Head(teids)),
                            [x \in TemplateSetsOf(Head(teids)) |-> template_sets[x].set_number])
       IN CopyExercises(Tail(teids), sid,
            [session_exercises |->
               Append(acc.session_exercises,
                      NewSessionExercise(sid, te.exercise_id, te.order, Head(teids),
                                         te.superset_group_id, te.superset_order)),
             sets |-> CopySets(tsids, se_id, acc.sets)])

RECURSIVE CopyTemplates(_, _, _)
CopyTemplates(tids, sid, acc) ==
  IF tids = <<>> THEN acc
  ELSE LET teids == SortIds(TemplateExercisesOf(Head(tids)),
                            [e \in TemplateExercisesOf(Head(tids)) |-> template_exercises[e].order])
       IN CopyTemplates(Tail(tids), sid, CopyExercises(teids, sid, acc))

create_session(user_id, name, template_ids) ==
  LET sid == Len(sessions) + 1
      copied == CopyTemplates(template_ids, sid,
                              [session_exercises |-> session_exercises, sets |-> sets])
  IN
  /\ Len(sessions) < MaxSessions
  /\ IF \E k \in DOMAIN template_ids : template_ids[k] \notin Live(templates)
       THEN \* the session row is committed first; the template link then
            \* violates its foreign key and the copy is rolled back
            /\ sessions' = Append(sessions, NewSession(user_id, name))
            /\ UNCHANGED <<session_exercises, sets>>
            /\ Respond("create_session", HTTP_500_INTERNAL_SERVER_ERROR)
       ELSE /\ Len(copied.session_exercises) <= MaxSessionExercises
            /\ Len(copied.sets) <= MaxSets
            /\ sessions' = Append(sessions,
                 [NewSession(user_id, name) EXCEPT !.template_ids = template_ids])
            /\ session_exercises' = copied.session_exercises
            /\ sets' = copied.sets
            /\ Respond("create_session", HTTP_201_CREATED)
  /\ UNCHANGED <<now, templateTables>>

update_session(user_id, session_id, name) ==
  /\ IF ~get_session_by_id(session_id, user_id)
       THEN /\ Respond("update_session", HTTP_404_NOT_FOUND)
            /\ UNCHANGED sessions
       ELSE IF sessions[session_id].completed_at # NULL
       THEN /\ Respond("update_session", HTTP_400_BAD_REQUEST)
            /\ UNCHANGED sessions
       ELSE /\ sessions' = [sessions EXCEPT ![session_id].name =
                              IF name # NullStr THEN name ELSE @]
            /\ Respond("update_session", HTTP_200_OK)
  /\ UNCHANGED <<now, session_exercises, sets, templateTables>>

SetsOfSession(session_id) ==
  {i \in DOMAIN sets :
     session_exercises[sets[i].workout_session_exercise_id].workout_session_id = session_id}

complete_session(user_id, session_id, completed_at) ==
  /\ IF ~get_session_by_id(session_id, user_id)
       THEN /\ Respond("complete_session", HTTP_404_NOT_FOUND)
            /\ UNCHANGED sessions
       ELSE IF sessions[session_id].completed_at # NULL
       THEN /\ Respond("complete_session", HTTP_400_BAD_REQUEST)
            /\ UNCHANGED sessions
       ELSE LET done == IF completed_at # NULL THEN completed_at ELSE now
                rest == SumSeq([k \in 1..Len(sets) |->
                          IF k \in SetsOfSession(session_id) /\ Truthy(sets[k].actual_rest_time)
                            THEN sets[k].actual_rest_time ELSE 0])
            IN
            /\ sessions' = [sessions EXCEPT ![session_id] =
                 [@ EXCEPT !.completed_at = done,
                           !.active_duration =
                              IF sessions[session_id].started_at # NULL
                                THEN (done - sessions[session_id].started_at) * SecondsPerInstant
                                ELSE @,
                           !.total_rest_duration = rest]]
            /\ Respond("complete_session", HTTP_200_OK)
  /\ UNCHANGED <<now, session_exercises, sets, templateTables>>

add_exercise_to_session(user_id, session_id, exercise_id, order) ==
  /\ IF ~get_session_by_id(session_id, user_id)
       THEN /\ Respond("add_exercise_to_session", HTTP_404_NOT_FOUND)
            /\ UNCHANGED session_exercises
       ELSE IF sessions[session_id].completed_at # NULL
       THEN /\ Respond("add_exercise_to_session", HTTP_400_BAD_REQUEST)
            /\ UNCHANGED session_exercises
       ELSE IF exercise_id \notin ExerciseIds
       THEN /\ Respond("add_exercise_to_session", HTTP_404_NOT_FOUND)
            /\ UNCHANGED session_exercises
       ELSE /\ Len(session_exercises) < MaxSessionExercises
            /\ session_exercises' = Append(session_exercises,
                 NewSessionExercise(session_id, exercise_id, order, NULL, NULL, NULL))
            /\ Respond("add_exercise_to_session", HTTP_200_OK)
  /\ UNCHANGED <<now, sessions, sets, templateTables>>

start_exercise(user_id, session_id, exercise_id) ==
  /\ IF ~get_session_by_id(session_id, user_id)
       THEN /\ Respond("start_exercise", HTTP_404_NOT_FOUND)
            /\ UNCHANGED session_exercises
       ELSE IF sessions[session_id].completed_at # NULL
       THEN /\ Respond("start_exercise", HTTP_400_BAD_REQUEST)
            /\ UNCHANGED session_exercises
       ELSE IF ~FindSessionExercise(exercise_id, session_id)
       THEN /\ Respond("start_exercise", HTTP_404_NOT_FOUND)
            /\ UNCHANGED session_exercises
       ELSE /\ session_exercises' = [session_exercises EXCEPT ![exercise_id].started_at =
                                       IF @ = NULL THEN now ELSE @]
            /\ Respond("start_exercise", HTTP_200_OK)
  /\ UNCHANGED <<now, sessions, sets, templateTables>>

complete_exercise(user_id, session_id, exercise_id) ==
  /\ IF ~get_session_by_id(session_id, user_id)
       THEN /\ Respond("complete_exercise", HTTP_404_NOT_FOUND)
            /\ UNCHANGED session_exercises
       ELSE IF sessions[session_id].completed_at # NULL
       THEN /\ Respond("complete_exercise", HTTP_400_BAD_REQUEST)
            /\ UNCHANGED session_exercises
       ELSE IF ~FindSessionExercise(exercise_id, session_id)
       THEN /\ Respond("complete_exercise", HTTP_404_NOT_FOUND)
            /\ UNCHANGED session_exercises
       ELSE /\ session_exercises' = [session_exercises EXCEPT ![exercise_id] =
                 [@ EXCEPT !.completed_at = now,
                           !.active_duration =
                              IF session_exercises[exercise_id].started_at # NULL
                                THEN (now - session_exercises[exercise_id].started_at)
                                        * SecondsPerInstant
                                ELSE @]]
            /\ Respond("complete_exercise", HTTP_200_OK)
  /\ UNCHANGED <<now, sessions, sets, templateTables>>

\* .first() of the sets of this session exercise carrying this set number
ExistingSets(exercise_id, set_number) ==
  {i \in DOMAIN sets : /\ sets[i].workout_session_exercise_id = exercise_id
                       /\ sets[i].set_number = set_number}

MinOf(S) == CHOOSE x \in S : \A y \in S : x <= y

\* log_set without the check of session.completed_at
log_set_NoCompletedCheck(user_id, session_id, exercise_id, set_number, reps, weight, is_warmup) ==
  /\ IF ~get_session_by_id(session_id, user_id)
       THEN /\ Respond("log_set", HTTP_404_NOT_FOUND)
            /\ UNCHANGED sets
       ELSE IF ~FindSessionExercise(exercise_id, session_id)
       THEN /\ Respond("log_set", HTTP_404_NOT_FOUND)
            /\ UNCHANGED sets
       ELSE IF ExistingSets(exercise_id, set_number) # {}
       THEN /\ sets' = [sets EXCEPT ![MinOf(ExistingSets(exercise_id, set_number))] =
                 [@ EXCEPT !.reps_completed = reps, !.weight = weight,
                           !.is_warmup = is_warmup]]
            /\ Respond("log_set", HTTP_200_OK)
       ELSE /\ Len(sets) < MaxSets
            /\ sets' = Append(sets, NewSet(exercise_id, set_number, reps, weight,
                                           is_warmup, NULL))
            /\ Respond("log_set", HTTP_200_OK)
  /\ UNCHANGED <<now, sessions, session_exercises, templateTables>>

\* log_set that adds a row whatever set numbers are stored
log_set_AlwaysAppend(user_id, session_id, exercise_id, set_number, reps, weight, is_warmup) ==
  /\ IF ~get_session_by_id(session_id, user_id)
       THEN /\ Respond("log_set", HTTP_404_NOT_FOUND)
            /\ UNCHANGED sets
       ELSE IF sessions[session_id].completed_at # NULL
       THEN /\ Respond("log_set", HTTP_400_BAD_REQUEST)
            /\ UNCHANGED sets
       ELSE IF ~FindSessionExercise(exercise_id, session_id)
       THEN /\ Respond("log_set", HTTP_404_NOT_FOUND)
            /\ UNCHANGED sets
       ELSE /\ Len(sets) < MaxSets
            /\ sets' = Append(sets, NewSet(exercise_id, set_number, reps, weight,
                                           is_warmup, NULL))
            /\ Respond("log_set", HTTP_200_OK)
  /\ UNCHANGED <<now, sessions, session_exercises, templateTables>>

log_set(user_id, session_id, exercise_id, set_number, reps, weight, is_warmup) ==
  /\ IF ~get_session_by_id(session_id, user_id)
       THEN /\ Respond("log_set", HTTP_404_NOT_FOUND)
            /\ UNCHANGED sets
       ELSE IF sessions[session_id].completed_at # NULL
       THEN /\ Respond("log_set", HTTP_400_BAD_REQUEST)
            /\ UNCHANGED sets
       ELSE IF ~FindSessionExercise(exercise_id, session_id)
       THEN /\ Respond("log_set", HTTP_404_NOT_FOUND)
            /\ UNCHANGED sets
       ELSE IF ExistingSets(exercise_id, set_number) # {}
       THEN /\ sets' = [sets EXCEPT ![MinOf(ExistingSets(exercise_id, set_number))] =
                 [@ EXCEPT !.reps_completed = reps, !.weight = weight,
                           !.is_warmup = is_warmup]]
            /\ Respond("log_set", HTTP_200_OK)
       ELSE /\ Len(sets) < MaxSets
            /\ sets' = Append(sets, NewSet(exercise_id, set_number, reps, weight,
                                           is_warmup, NULL))
            /\ Respond("log_set", HTTP_200_OK)
  /\ UNCHANGED <<now, sessions, session_exercises, templateTables>>

FindSet(set_id, exercise_id) ==
  /\ set_id \in DOMAIN sets
  /\ sets[set_id].workout_session_exercise_id = exercise_id

\* is_warmup arrives as "true", "false" or NullStr (field absent)
update_set(user_id, session_id, exercise_id, set_id, reps, weight, is_warmup) ==
  /\ IF ~get_session_by_id(session_id, user_id)
       THEN /\ Respond("update_set", HTTP_404_NOT_FOUND)
            /\ UNCHANGED sets
       ELSE IF sessions[session_id].completed_at # NULL
       THEN /\ Respond("update_set", HTTP_400_BAD_REQUEST)
            /\ UNCHANGED sets
       ELSE IF ~FindSessionExercise(exercise_id, session_id) \/ ~FindSet(set_id, exercise_id)
       THEN /\ Respond("update_set", HTTP_404_NOT_FOUND)
            /\ UNCHANGED sets
       ELSE /\ sets' = [sets EXCEPT ![set_id] =
                 [@ EXCEPT !.reps_completed = IF reps # NULL THEN reps ELSE @,
                           !.weight = IF weight # NULL THEN weight ELSE @,
                           !.is_warmup = IF is_warmup # NullStr THEN is_warmup = "true" ELSE @]]
            /\ Respond("update_set", HTTP_200_OK)
  /\ UNCHANGED <<now, sessions, session_exercises, templateTables>>

start_rest(user_id, session_id, exercise_id, set_id) ==
  /\ IF ~get_session_by_id(session_id, user_id)
       THEN /\ Respond("start_rest", HTTP_404_NOT_FOUND)
            /\ UNCHANGED sets
       ELSE IF sessions[session_id].completed_at # NULL
       THEN /\ Respond("start_rest", HTTP_400_BAD_REQUEST)
            /\ UNCHANGED sets
       ELSE IF ~(FindSet(set_id, exercise_id) /\ FindSessionExercise(exercise_id, session_id))
       THEN /\ Respond("start_rest", HTTP_404_NOT_FOUND)
            /\ UNCHANGED sets
       ELSE /\ sets' = [sets EXCEPT ![set_id].rest_start_time = now]
            /\ Respond("start_rest", HTTP_200_OK)
  /\ UNCHANGED <<now, sessions, session_exercises, templateTables>>

\* end_rest without the check of rest_start_time
end_rest_NoStartCheck(user_id, session_id, exercise_id, set_id) ==
  /\ IF ~get_session_by_id(session_id, user_id)
       THEN /\ Respond("end_rest", HTTP_404_NOT_FOUND)
            /\ UNCHANGED sets
       ELSE IF sessions[session_id].completed_at # NULL
       THEN /\ Respond("end_rest", HTTP_400_BAD_REQUEST)
            /\ UNCHANGED sets
       ELSE IF ~(FindSet(set_id, exercise_id) /\ FindSessionExercise(exercise_id, session_id))
       THEN /\ Respond("end_rest", HTTP_404_NOT_FOUND)
            /\ UNCHANGED sets
       ELSE /\ sets' = [sets EXCEPT ![set_id] =
                 [@ EXCEPT !.rest_end_time = now,
                           !.actual_rest_time =
                              (now - sets[set_id].rest_start_time) * SecondsPerInstant]]
            /\ Respond("end_rest", HTTP_200_OK)
  /\ UNCHANGED <<now, sessions, session_exercises, templateTables>>

end_rest(user_id, session_id, exercise_id, set_id) ==
  /\ IF ~get_session_by_id(session_id, user_id)
       THEN /\ Respond("end_rest", HTTP_404_NOT_FOUND)
            /\ UNCHANGED sets
       ELSE IF sessions[session_id].completed_at # NULL
       THEN /\ Respond("end_rest", HTTP_400_BAD_REQUEST)
            /\ UNCHANGED sets
       ELSE IF ~(FindSet(set_id, exercise_id) /\ FindSessionExercise(exercise_id, session_id))
       THEN /\ Respond("end_rest", HTTP_404_NOT_FOUND)
            /\ UNCHANGED sets
       ELSE IF sets[set_id].rest_start_time = NULL
       THEN /\ Respond("end_rest", HTTP_400_BAD_REQUEST)
            /\ UNCHANGED sets
       ELSE /\ sets' = [sets EXCEPT ![set_id] =
                 [@ EXCEPT !.rest_end_time = now,
                           !.actual_rest_time =
                              (now - sets[set_id].rest_start_time) * SecondsPerInstant]]
            /\ Respond("end_rest", HTTP_200_OK)
  /\ UNCHANGED <<now, sessions, session_exercises, templateTables>>

SessionExercisesOf(session_id) ==
  {e \in DOMAIN session_exercises : session_exercises[e].workout_session_id = session_id}

create_superset(user_id, session_id, exercise_ids, orders) ==
  /\ IF ~get_session_by_id(session_id, user_id)
       THEN /\ Respond("create_superset", HTTP_404_NOT_FOUND)
            /\ UNCHANGED session_exercises
       ELSE IF sessions[session_id].completed_at # NULL \/ Len(exercise_ids) # Len(orders)
       THEN /\ Respond("create_superset", HTTP_400_BAD_REQUEST)
            /\ UNCHANGED session_exercises
       ELSE IF \E k \in DOMAIN exercise_ids : ~FindSessionExercise(exercise_ids[k], session_id)
       THEN \* the request aborts before commit: nothing is stored
            /\ Respond("create_superset", HTTP_404_NOT_FOUND)
            /\ UNCHANGED session_exercises
       ELSE /\ session_exercises' =
                 ApplySuperset(session_exercises, exercise_ids, orders,
                               FreshGroup, SessionExercisesOf(session_id))
            /\ Respond("create_superset", HTTP_200_OK)
  /\ UNCHANGED <<now, sessions, sets, templateTables>>

(* ---------------- session services, queries and commit apart ---------- *)
\* the inserts that workers have decided on and not committed yet
PendingInserts ==
  Cardinality({w \in Workers : pending[w].op = "log_set" /\ pending[w].set_id = NULL})

\* log_set up to line 419: the session, the session exercise and the set
\* with this number are read and the checks pass
log_set_check(w, user_id, session_id, exercise_id, set_number, reps, weight, is_warmup) ==
  /\ pending[w] = Idle
  /\ get_session_by_id(session_id, user_id)
  /\ sessions[session_id].completed_at = NULL
  /\ FindSessionExercise(exercise_id, session_id)
  /\ ExistingSets(exercise_id, set_number) = {} => Len(sets) + PendingInserts < MaxSets
  /\ pending' = [pending EXCEPT ![w] =
       [Idle EXCEPT !.op = "log_set", !.session_id = session_id,
                    !.exercise_id = exercise_id, !.set_number = set_number,
                    !.set_id = IF ExistingSets(exercise_id, set_number) # {}
                                 THEN MinOf(ExistingSets(exercise_id, set_number))
                                 ELSE NULL,
                    !.reps = reps, !.weight = weight,
                    !.is_warmup = IF is_warmup THEN "true" ELSE "false"]]
  /\ UNCHANGED <<now, sessionTables, templateTables, resp>>

\* log_set from line 421: the row found is updated, or a row is inserted
log_set_commit(w) ==
  /\ pending[w].op = "log_set"
  /\ sets' = IF pending[w].set_id # NULL
               THEN [sets EXCEPT ![pending[w].set_id] =
                       [@ EXCEPT !.reps_completed = pending[w].reps,
                                 !.weight = pending[w].weight,
                                 !.is_warmup = pending[w].is_warmup = "true"]]
               ELSE Append(sets, NewSet(pending[w].exercise_id, pending[w].set_number,
                                        pending[w].reps, pending[w].weight,
                                        pending[w].is_warmup = "true", NULL))
  /\ pending' = [pending EXCEPT ![w] = Idle]
  /\ resp' = HTTP_200_OK
  /\ UNCHANGED <<now, sessions, session_exercises, templateTables>>

\* update_set up to line 494
update_set_check(w, user_id, session_id, exercise_id, set_id, reps, weight, is_warmup) ==
  /\ pending[w] = Idle
  /\ get_session_by_id(session_id, user_id)
  /\ sessions[session_id].completed_at = NULL
  /\ FindSessionExercise(exercise_id, session_id)
  /\ FindSet(set_id, exercise_id)
  /\ pending' = [pending EXCEPT ![w] =
       [Idle EXCEPT !.op = "update_set", !.session_id = session_id,
                    !.exercise_id = exercise_id, !.set_id = set_id,
                    !.reps = reps, !.weight = weight, !.is_warmup = is_warmup]]
  /\ UNCHANGED <<now, sessionTables, templateTables, resp>>

\* update_set from line 496
update_set_commit(w) ==
  /\ pending[w].op = "update_set"
  /\ sets' = [sets EXCEPT ![pending[w].set_id] =
       [@ EXCEPT !.reps_completed = IF pending[w].reps # NULL THEN pending[w].reps ELSE @,
                 !.weight = IF pending[w].weight # NULL THEN pending[w].weight ELSE @,
                 !.is_warmup = IF pending[w].is_warmup # NullStr
                                 THEN pending[w].is_warmup = "true" ELSE @]]
  /\ pending' = [pending EXCEPT ![w] = Idle]
  /\ resp' = HTTP_200_OK
  /\ UNCHANGED <<now, sessions, session_exercises, templateTables>>

\* complete_session up to line 259: completed_at is checked, the completion
\* time is taken from the clock and the rest times of the sets are summed
complete_session_check(w, user_id, session_id, completed_at) ==
  /\ pending[w] = Idle
  /\ get_session_by_id(session_id, user_id)
  /\ sessions[session_id].completed_at = NULL
  /\ pending' = [pending EXCEPT ![w] =
       [Idle EXCEPT !.op = "complete_session", !.session_id = session_id,
                    !.completed_at = IF completed_at # NULL THEN completed_at ELSE now,
                    !.total_rest_duration =
                       SumSeq([k \in 1..Len(sets) |->
                          IF k \in SetsOfSession(session_id) /\ Truthy(sets[k].actual_rest_time)
                            THEN sets[k].actual_rest_time ELSE 0])]]
  /\ UNCHANGED <<now, sessionTables, templateTables, resp>>

\* complete_session, line 264: the session row is written
complete_session_commit(w) ==
  /\ pending[w].op = "complete_session"
  /\ sessions' = [sessions EXCEPT ![pending[w].session_id] =
       [@ EXCEPT !.completed_at = pending[w].completed_at,
                 !.active_duration =
                    IF sessions[pending[w].session_id].started_at # NULL
                      THEN (pending[w].completed_at
                              - sessions[pending[w].session_id].started_at) * SecondsPerInstant
                      ELSE @,
                 !.total_rest_duration = pending[w].total_rest_duration]]
  /\ pending' = [pending EXCEPT ![w] = Idle]
  /\ resp' = HTTP_200_OK
  /\ UNCHANGED <<now, session_exercises, sets, templateTables>>

(* --------------------------- statistics ------------------------------- *)
RecentSessionCount == 3

\* a StatsTimeRangeFilter: start_date / end_date are day numbers or NULL
NoFilter == [start_date |-> NULL, end_date |-> NULL, period |-> "all"]

PeriodDays(period) ==
  IF period = "week" THEN 7
  ELSE IF period = "month" THEN 30
  ELSE IF period = "year" THEN 365
  ELSE NULL

\* datetime.combine(d, datetime.min.time()) and datetime.combine(d, datetime.max.time())
DayFirstInstant(d) == d * DayLen
DayLastInstant(d) == d * DayLen + (DayLen - 1)

\* a single explicit date dropped as soon as a named period applies
apply_date_filter_PeriodFirst(filter, t, clock) ==
  IF filter.start_date # NULL /\ filter.end_date # NULL
    THEN t >= DayFirstInstant(filter.start_date) /\ t <= DayLastInstant(filter.end_date)
  ELSE IF PeriodDays(filter.period) # NULL
    THEN t >= clock - PeriodDays(filter.period) * DayLen
  ELSE /\ filter.start_date # NULL => t >= DayFirstInstant(filter.start_date)
       /\ filter.end_date # NULL => t <= DayLastInstant(filter.end_date)

\* the named period applied even when both explicit dates are given
apply_date_filter_PeriodAlways(filter, t, clock) ==
  /\ filter.start_date # NULL => t >= DayFirstInstant(filter.start_date)
  /\ filter.end_date # NULL => t <= DayLastInstant(filter.end_date)
  /\ PeriodDays(filter.period) # NULL => t >= clock - PeriodDays(filter.period) * DayLen

\* apply_date_filter: does a row whose date column holds t pass the filter
apply_date_filter(filter, t, clock) ==
  /\ filter.start_date # NULL => t >= DayFirstInstant(filter.start_date)
  /\ filter.end_date # NULL => t <= DayLastInstant(filter.end_date)
  /\ ( /\ filter.period # NullStr
       /\ filter.period # "all"
       /\ ~(filter.start_date # NULL /\ filter.end_date # NULL)
       /\ PeriodDays(filter.period) # NULL )
     => t >= clock - PeriodDays(filter.period) * DayLen

\* the factor turned upside down: weight * (37 - reps) / 36
estimate_one_rep_max_Inverted(weight, reps) ==
  IF reps = 0 THEN [n |-> 0, d |-> 1] ELSE [n |-> weight * (37 - reps), d |-> 36]

\* estimate_one_rep_max as an exact fraction; d = 0 is the ZeroDivisionError
estimate_one_rep_max(weight, reps) ==
  IF reps = 0 THEN [n |-> 0, d |-> 1]
  ELSE IF reps = 1 THEN [n |-> weight, d |-> 1]
  ELSE IF 37 - reps > 0 THEN [n |-> weight * 36, d |-> 37 - reps]
  ELSE IF 37 - reps < 0 THEN [n |-> 0 - weight * 36, d |-> reps - 37]
  ELSE [n |-> weight * 36, d |-> 0]

Raises(q) == q.d = 0
RatLess(a, b) == a.n * b.d < b.n * a.d
RatEq(a, b) == a.n * b.d = b.n * a.d
RatZero == [n |-> 0, d |-> 1]
\* None in a field that holds a fraction
NullRat == [n |-> NULL, d |-> NULL]

RECURSIVE Dedupe(_)
Dedupe(seq) ==
  IF seq = <<>> THEN <<>>
  ELSE <<Head(seq)>> \o Dedupe(SelectSeq(Tail(seq), LAMBDA x : x # Head(seq)))

\* max(seq, key=...): the first element carrying the largest key, key[k] being
\* the key of seq[k]
FirstMax(seq, key) ==
  seq[CHOOSE k \in DOMAIN seq :
        /\ \A j \in DOMAIN seq : key[j] <= key[k]
        /\ \A j \in 1..(k - 1) : key[j] < key[k]]

SessionOfSet(db, i) ==
  db.session_exercises[db.sets[i].workout_session_exercise_id].workout_session_id

ExerciseOfSet(db, i) ==
  db.session_exercises[db.sets[i].workout_session_exercise_id].exercise_id

\* the sessions of this user (WorkoutSession.user_id == user_id)
\* the sessions of every user
UserSessions_AllUsers(db, user_id) == DOMAIN db.sessions

UserSessions(db, user_id) ==
  {s \in DOMAIN db.sessions : db.sessions[s].user_id = user_id}

\* the base query of get_exercise_progress / get_personal_records:
\* non-warmup sets of this exercise in the user's sessions inside the window
ExerciseSetQuery(db, clock, user_id, exercise_id, filter) ==
  {i \in DOMAIN db.sets :
     /\ SessionOfSet(db, i) \in UserSessions(db, user_id)
     /\ ExerciseOfSet(db, i) = exercise_id
     /\ db.sets[i].is_warmup = FALSE
     /\ apply_date_filter(filter, db.sessions[SessionOfSet(db, i)].started_at, clock)}

WeightKey(db, i) == IF Truthy(db.sets[i].weight) THEN db.sets[i].weight ELSE 0
RepsKey(db, i) == IF Truthy(db.sets[i].reps_completed) THEN db.sets[i].reps_completed ELSE 0
HasVolume(db, i) == Truthy(db.sets[i].weight) /\ Truthy(db.sets[i].reps_completed)
SetVolume(db, i) == db.sets[i].weight * db.sets[i].reps_completed

\* sum(...) over the sets of a list that have weight and reps
ListVolume(db, seq) ==
  SumSeq([k \in DOMAIN seq |-> IF HasVolume(db, seq[k]) THEN SetVolume(db, seq[k]) ELSE 0])

\* the session whose max-weight set is left in max_weight_set when the
\* per-session loop (lines 132-156) ends: the last key of sets_by_session
LastLoopSession(session_ids) == session_ids[Len(session_ids)]

\* the estimate of the heaviest set alone
BestOneRepMax_RecordSetOnly(db, seq, best) ==
  LET i == FirstMax(seq, [k \in DOMAIN seq |-> WeightKey(db, seq[k])])
      q == estimate_one_rep_max(db.sets[i].weight, db.sets[i].reps_completed)
  IN IF HasVolume(db, i) /\ RatLess(best, q) THEN q ELSE best

\* best_one_rep_max: the running max(best, one_rm) from 0 over the list
RECURSIVE BestOneRepMax(_, _, _)
BestOneRepMax(db, seq, best) ==
  IF seq = <<>> THEN best
  ELSE LET i == Head(seq)
           q == estimate_one_rep_max(db.sets[i].weight, db.sets[i].reps_completed)
       IN BestOneRepMax(db, Tail(seq),
            IF HasVolume(db, i) /\ RatLess(best, q) THEN q ELSE best)

\* the empty answer signalled as not found
EmptyProgress_NotFound ==
  [status |-> HTTP_404_NOT_FOUND,
   personal_record_weight |-> NULL, personal_record_reps |-> NULL,
   personal_record_date |-> NULL, one_rep_max_estimated |-> NullRat,
   recent_sets |-> <<>>, volume_over_time |-> <<>>, max_weight_over_time |-> <<>>]

\* the answer for an exercise without sets, lines 91-100
EmptyProgress ==
  [status |-> HTTP_200_OK,
   personal_record_weight |-> NULL, personal_record_reps |-> NULL,
   personal_record_date |-> NULL, one_rep_max_estimated |-> NullRat,
   recent_sets |-> <<>>, volume_over_time |-> <<>>, max_weight_over_time |-> <<>>]

get_exercise_progress(db, clock, user_id, exercise_id, filter) ==
  IF exercise_id \notin ExerciseIds
    THEN [EmptyProgress EXCEPT !.status = HTTP_404_NOT_FOUND]
  ELSE
  LET ids == ExerciseSetQuery(db, clock, user_id, exercise_id, filter)
      \* order_by(WorkoutSession.started_at.desc())
      exercise_sets ==
        SortIds(ids, [i \in ids |-> 0 - db.sessions[SessionOfSet(db, i)].started_at])
  IN
  IF exercise_sets = <<>> THEN EmptyProgress
  ELSE
  LET W(i) == WeightKey(db, i)
      R(i) == RepsKey(db, i)
      max_reps_set == FirstMax(exercise_sets, [k \in DOMAIN exercise_sets |-> R(exercise_sets[k])])
      \* keys of sets_by_session in insertion order
      session_ids == Dedupe([k \in DOMAIN exercise_sets |-> SessionOfSet(db, exercise_sets[k])])
      sets_by_session(sid) == SelectSeq(exercise_sets, LAMBDA i : SessionOfSet(db, i) = sid)
      session_dates(sid) == db.sessions[sid].started_at
      session_max(sid) ==
        FirstMax(sets_by_session(sid),
                 [k \in DOMAIN sets_by_session(sid) |-> W(sets_by_session(sid)[k])])
      volume_sessions ==
        SelectSeq(session_ids, LAMBDA sid : ListVolume(db, sets_by_session(sid)) > 0)
      volume_points ==
        [k \in DOMAIN volume_sessions |->
           [date |-> session_dates(volume_sessions[k]),
            volume |-> ListVolume(db, sets_by_session(volume_sessions[k]))]]
      max_sessions ==
        SelectSeq(session_ids, LAMBDA sid : HasVolume(db, session_max(sid)))
      max_points ==
        [k \in DOMAIN max_sessions |->
           [date |-> session_dates(max_sessions[k]),
            weight |-> db.sets[session_max(max_sessions[k])].weight,
            reps |-> db.sets[session_max(max_sessions[k])].reps_completed]]
      \* max_weight_set is reassigned inside the per-session loop
      max_weight_set == session_max(LastLoopSession(session_ids))
      raises == \E k \in DOMAIN exercise_sets :
                   /\ HasVolume(db, exercise_sets[k])
                   /\ Raises(estimate_one_rep_max(db.sets[exercise_sets[k]].weight,
                                                  db.sets[exercise_sets[k]].reps_completed))
      best_one_rep_max == BestOneRepMax(db, exercise_sets, RatZero)
      recent_session_ids ==
        LET sorted == StableSortDesc(session_ids,
                        [k \in DOMAIN session_ids |-> session_dates(session_ids[k])])
        IN SubSeq(sorted, 1, Min2(RecentSessionCount, Len(sorted)))
      recent_ids ==
        LET RECURSIVE Cat(_)
            Cat(seq) == IF seq = <<>> THEN <<>>
                        ELSE SelectSeq(sets_by_session(Head(seq)), LAMBDA i : HasVolume(db, i))
                               \o Cat(Tail(seq))
        IN Cat(recent_session_ids)
      recent_sets ==
        [k \in DOMAIN recent_ids |->
           [date |-> session_dates(SessionOfSet(db, recent_ids[k])),
            weight |-> db.sets[recent_ids[k]].weight,
            reps |-> db.sets[recent_ids[k]].reps_completed,
            is_personal_record |->
              /\ db.sets[recent_ids[k]].weight = db.sets[max_weight_set].weight
              /\ db.sets[recent_ids[k]].reps_completed = db.sets[max_weight_set].reps_completed]]
  IN
  IF raises THEN [EmptyProgress EXCEPT !.status = HTTP_500_INTERNAL_SERVER_ERROR]
  ELSE
  [status |-> HTTP_200_OK,
   personal_record_weight |->
     IF Truthy(db.sets[max_weight_set].weight) THEN db.sets[max_weight_set].weight ELSE NULL,
   personal_record_reps |->
     IF Truthy(db.sets[max_reps_set].reps_completed)
       THEN db.sets[max_reps_set].reps_completed ELSE NULL,
   personal_record_date |-> session_dates(SessionOfSet(db, max_weight_set)),
   one_rep_max_estimated |->
     IF RatLess(RatZero, best_one_rep_max) THEN best_one_rep_max ELSE NullRat,
   recent_sets |-> recent_sets,
   volume_over_time |->
     StableSort(volume_points, [k \in DOMAIN volume_points |-> volume_points[k].date]),
   max_weight_over_time |->
     StableSort(max_points, [k \in DOMAIN max_points |-> max_points[k].date])]

\* list.sort(key=..., reverse=True) on fraction keys, key[k] being the key of
\* seq[k]: descending, equal keys keep their order
SortSeqBy(seq, key) ==
  [r \in DOMAIN seq |->
     seq[CHOOSE i \in DOMAIN seq :
           Cardinality({j \in DOMAIN seq :
                          \/ RatLess(key[i], key[j])
                          \/ RatEq(key[i], key[j]) /\ j < i}) = r - 1]]

\* a slice that also takes the element at end_idx
Slice_Inclusive(seq, start_idx, end_idx) ==
  SubSeq(seq, start_idx + 1, Min2(end_idx + 1, Len(seq)))

\* seq[start_idx:end_idx] of Python, 0-based, end exclusive
Slice(seq, start_idx, end_idx) ==
  SubSeq(seq, start_idx + 1, Min2(end_idx, Len(seq)))

\* exercises the user has ever put into a session (first query of get_personal_records)
UserExercises(db, user_id) ==
  {e \in ExerciseIds :
     \E x \in DOMAIN db.session_exercises :
        /\ db.session_exercises[x].exercise_id = e
        /\ db.session_exercises[x].workout_session_id \in UserSessions(db, user_id)}

\* the first set of the group, whatever its weight
PrSet_First(db, group) == group[1]

\* pr_set = max(sets, key=lambda s: s.weight)
PrSet(db, group) == FirstMax(group, [k \in DOMAIN group |-> db.sets[group[k]].weight])

\* every record kept, whatever the state of its session
RecordSessionCompleted_Always(db, i) == TRUE

\* a record is dropped unless the session of its set has completed_at
RecordSessionCompleted(db, i) == db.sessions[SessionOfSet(db, i)].completed_at # NULL

\* the records of one exercise, one per rep count, in rep_groups insertion order
ExerciseRecords(db, clock, user_id, exercise_id, filter) ==
  LET ids == ExerciseSetQuery(db, clock, user_id, exercise_id, filter)
      rows == SelectSeq(SortIds(ids, [i \in ids |-> 0]), LAMBDA i : HasVolume(db, i))
      rep_keys == Dedupe([k \in DOMAIN rows |-> db.sets[rows[k]].reps_completed])
      group(reps) == SelectSeq(rows, LAMBDA i : db.sets[i].reps_completed = reps)
      pr_set(reps) == PrSet(db, group(reps))
      kept == SelectSeq(rep_keys, LAMBDA reps : RecordSessionCompleted(db, pr_set(reps)))
  IN [k \in DOMAIN kept |->
        [exercise_id |-> exercise_id,
         exercise_name |-> Exercise[exercise_id].name,
         target_muscle_group |-> Exercise[exercise_id].target_muscle_group,
         weight |-> db.sets[pr_set(kept[k])].weight,
         reps |-> kept[k],
         date |-> db.sessions[SessionOfSet(db, pr_set(kept[k]))].completed_at,
         estimated_one_rep_max |->
           estimate_one_rep_max(db.sets[pr_set(kept[k])].weight, kept[k])]]

RECURSIVE ConcatRecords(_, _, _, _, _)
ConcatRecords(db, clock, user_id, exercise_ids, filter) ==
  IF exercise_ids = <<>> THEN <<>>
  ELSE ExerciseRecords(db, clock, user_id, Head(exercise_ids), filter)
         \o ConcatRecords(db, clock, user_id, Tail(exercise_ids), filter)

\* all_records after the sort by estimated_one_rep_max, reverse=True
SortRecords(all_records) ==
  SortSeqBy(all_records,
            [k \in DOMAIN all_records |-> all_records[k].estimated_one_rep_max])

get_personal_records(db, clock, user_id, filter, page, limit) ==
  LET exercises == UserExercises(db, user_id)
      exercise_ids == SortIds(exercises, [e \in exercises |-> 0])
      all_records == ConcatRecords(db, clock, user_id, exercise_ids, filter)
  IN
  IF exercise_ids = <<>>
    THEN [status |-> HTTP_200_OK, records |-> <<>>, total_count |-> 0]
  ELSE IF \E k \in DOMAIN all_records : Raises(all_records[k].estimated_one_rep_max)
    THEN [status |-> HTTP_500_INTERNAL_SERVER_ERROR, records |-> <<>>, total_count |-> 0]
  ELSE [status |-> HTTP_200_OK,
        records |-> Slice(SortRecords(all_records), page * limit, page * limit + limit),
        total_count |-> Len(all_records)]

\* the id fields of the returned records: record k of all_records is given
\* uuid4[k], the value of the k-th call of uuid.uuid4(), before the sort
record_ids(db, clock, user_id, filter, page, limit, uuid4) ==
  LET exercises == UserExercises(db, user_id)
      exercise_ids == SortIds(exercises, [e \in exercises |-> 0])
      all_records == ConcatRecords(db, clock, user_id, exercise_ids, filter)
      ids == [k \in DOMAIN all_records |-> uuid4[k]]
      sorted == SortSeqBy(ids, [k \in DOMAIN all_records |->
                                  all_records[k].estimated_one_rep_max])
  IN IF \E k \in DOMAIN all_records : Raises(all_records[k].estimated_one_rep_max)
       THEN <<>>
       ELSE Slice(sorted, page * limit, page * limit + limit)

(* muscle groups *)
\* a \div b rounding toward minus infinity (timedelta.days)
FloorDiv(a, b) == IF a >= 0 THEN a \div b ELSE 0 - ((0 - a + b - 1) \div b)

\* the sessions of the user inside the window, completed or not
CompletedSessions_All(db, clock, user_id, filter) ==
  {s \in UserSessions(db, user_id) :
     apply_date_filter(filter, db.sessions[s].started_at, clock)}

\* completed sessions of the user inside the window, in id order
CompletedSessions(db, clock, user_id, filter) ==
  {s \in UserSessions(db, user_id) :
     /\ db.sessions[s].completed_at # NULL
     /\ apply_date_filter(filter, db.sessions[s].started_at, clock)}

\* only the sets that have weight and reps
SetsOfExercise_WithVolume(db, se) ==
  {i \in DOMAIN db.sets :
     /\ db.sets[i].workout_session_exercise_id = se
     /\ Truthy(db.sets[i].weight)
     /\ Truthy(db.sets[i].reps_completed)}

SetsOfExercise(db, se) ==
  {i \in DOMAIN db.sets : db.sets[i].workout_session_exercise_id = se}

MaxOf(S) == CHOOSE x \in S : \A y \in S : x >= y

get_muscle_group_stats(db, clock, user_id, filter) ==
  LET session_set == CompletedSessions(db, clock, user_id, filter)
      \* session exercises of these sessions that reach the accumulation
      ses == {x \in DOMAIN db.session_exercises :
                /\ db.session_exercises[x].workout_session_id \in session_set
                /\ db.session_exercises[x].exercise_id \in ExerciseIds
                /\ SetsOfExercise(db, x) # {}}
      se_seq == SortIds(ses, [x \in ses |-> 0])
      muscle_of(x) == Exercise[db.session_exercises[x].exercise_id].target_muscle_group
      muscles == Dedupe([k \in DOMAIN se_seq |-> muscle_of(se_seq[k])])
      group_ses(m) == {x \in ses : muscle_of(x) = m}
      group_sets(m) == {i \in DOMAIN db.sets :
                          /\ db.sets[i].workout_session_exercise_id \in group_ses(m)
                          /\ HasVolume(db, i)}
      volume(m) == ListVolume(db, SortIds(group_sets(m), [i \in group_sets(m) |-> 0]))
      last_trained(m) ==
        MaxOf({db.sessions[db.session_exercises[x].workout_session_id].completed_at :
                 x \in group_ses(m)})
      max_volume == IF muscles = <<>> THEN 1
                    ELSE MaxOf({volume(muscles[k]) : k \in DOMAIN muscles})
      entries ==
        [k \in DOMAIN muscles |->
           [muscle_group |-> muscles[k],
            volume |-> volume(muscles[k]),
            sets_count |-> Cardinality(group_sets(muscles[k])),
            activity_level |-> IF max_volume > 0
                                 THEN [n |-> volume(muscles[k]), d |-> max_volume]
                                 ELSE RatZero,
            last_trained |-> last_trained(muscles[k]),
            \* min(100, days * 33.33), in hundredths
            recovery_status |->
              Min2(10000, FloorDiv(clock - last_trained(muscles[k]), DayLen) * 3333)]]
  IN
  IF session_set = {}
    THEN [status |-> HTTP_200_OK, date_range_start |-> clock, date_range_end |-> clock,
          muscle_groups |-> <<>>]
  ELSE [status |-> HTTP_200_OK,
        date_range_start |-> 0 - MaxOf({0 - db.sessions[s].started_at : s \in session_set}),
        date_range_end |-> MaxOf({db.sessions[s].completed_at : s \in session_set}),
        muscle_groups |->
          SortSeqBy(entries, [k \in DOMAIN entries |-> entries[k].activity_level])]

(* overview *)
\* round(n / d) of Python 3 (ties to even), d > 0
RoundHalfEven(n, d) ==
  LET q == FloorDiv(n, d)
      r == n - q * d
  IN IF 2 * r < d THEN q
     ELSE IF 2 * r > d THEN q + 1
     ELSE IF q % 2 = 0 THEN q ELSE q + 1

DaysPerWeek == 7
DaysPerMonth == 30

DateOf(t) == FloorDiv(t, DayLen)
HourOf(t) == ((t % DayLen) * 24) \div DayLen
\* strftime("%A"); day 0 of the model is a Monday
WeekdayName(day) ==
  <<"Monday", "Tuesday", "Wednesday", "Thursday", "Friday", "Saturday", "Sunday">>
    [(day % DaysPerWeek) + 1]
TimeOfDay(hour) ==
  IF 5 <= hour /\ hour < 12 THEN "Morning"
  ELSE IF 12 <= hour /\ hour < 17 THEN "Afternoon"
  ELSE IF 17 <= hour /\ hour < 22 THEN "Evening"
  ELSE "Night"

\* max(counts.items(), key=count)[0] over the labels of a list, in first-seen order
MostCommon(labels) ==
  LET keys == Dedupe(labels)
      count(x) == Cardinality({k \in DOMAIN labels : labels[k] = x})
  IN IF keys = <<>> THEN NullStr ELSE FirstMax(keys, [k \in DOMAIN keys |-> count(keys[k])])

\* the defaults with no most_trained_muscle
ZeroOverview_NoMuscle ==
  [status |-> HTTP_200_OK, total_workouts |-> 0, total_duration |-> 0, total_volume |-> 0,
   avg_workout_duration |-> 0, most_trained_muscle |-> NullStr, workout_consistency |-> 0,
   most_recent_workout |-> NULL, busiest_day |-> NullStr, busiest_time |-> NullStr]

ZeroOverview ==
  [status |-> HTTP_200_OK, total_workouts |-> 0, total_duration |-> 0, total_volume |-> 0,
   avg_workout_duration |-> 0, most_trained_muscle |-> "None", workout_consistency |-> 0,
   most_recent_workout |-> NULL, busiest_day |-> NullStr, busiest_time |-> NullStr]

\* the single-day rule applied to fewer than two sessions as well
WorkoutConsistency_SingleDayRule(db, session_seq, total_workouts) ==
  LET first_workout == 0 - MaxOf({0 - db.sessions[session_seq[k]].started_at :
                                    k \in DOMAIN session_seq})
      last_workout == MaxOf({db.sessions[session_seq[k]].started_at :
                               k \in DOMAIN session_seq})
      days_span == FloorDiv(last_workout - first_workout, DayLen)
  IN IF days_span > 0
       THEN Min2(1000, RoundHalfEven(total_workouts * 7000, 3 * days_span))
       ELSE 1000

\* workout_consistency, lines 533-550, in tenths of a percent after round(x, 1)
WorkoutConsistency(db, session_seq, total_workouts) ==
  IF Len(session_seq) >= 2
    THEN LET first_workout == 0 - MaxOf({0 - db.sessions[session_seq[k]].started_at :
                                           k \in DOMAIN session_seq})
             last_workout == MaxOf({db.sessions[session_seq[k]].started_at :
                                      k \in DOMAIN session_seq})
             days_span == FloorDiv(last_workout - first_workout, DayLen)
         IN IF days_span > 0
              THEN Min2(1000, RoundHalfEven(total_workouts * 7000, 3 * days_span))
              ELSE 1000
    ELSE 0

\* the session exercises of completed sessions only
SessionExercisesIn_CompletedOnly(db, session_ids) ==
  {x \in DOMAIN db.session_exercises :
     /\ db.session_exercises[x].workout_session_id \in session_ids
     /\ db.sessions[db.session_exercises[x].workout_session_id].completed_at # NULL}

\* WorkoutSessionExercise.workout_session_id.in_(session_ids)
SessionExercisesIn(db, session_ids) ==
  {x \in DOMAIN db.session_exercises :
     db.session_exercises[x].workout_session_id \in session_ids}

get_workout_overview(db, clock, user_id, filter) ==
  LET in_range == {s \in UserSessions(db, user_id) :
                     apply_date_filter(filter, db.sessions[s].started_at, clock)}
      session_seq == SortIds(in_range, [s \in in_range |-> 0])
      completed_sessions == SelectSeq(session_seq, LAMBDA s : db.sessions[s].completed_at # NULL)
      total_workouts == Len(completed_sessions)
      \* seconds; the division by 60 is carried to the rounding
      total_seconds ==
        SumSeq([k \in DOMAIN completed_sessions |->
                  IF Truthy(db.sessions[completed_sessions[k]].active_duration)
                    THEN db.sessions[completed_sessions[k]].active_duration ELSE 0])
      most_recent ==
        FirstMax(session_seq,
                 [k \in DOMAIN session_seq |-> db.sessions[session_seq[k]].started_at])
      ses == SessionExercisesIn(db, in_range)
      set_ids == {i \in DOMAIN db.sets :
                    db.sets[i].workout_session_exercise_id \in ses /\ HasVolume(db, i)}
      set_seq == SortIds(set_ids, [i \in set_ids |-> 0])
      total_volume == ListVolume(db, set_seq)
      muscle_of(i) == Exercise[ExerciseOfSet(db, i)].target_muscle_group
      muscle_sets == SelectSeq(set_seq, LAMBDA i : ExerciseOfSet(db, i) \in ExerciseIds)
      muscles == Dedupe([k \in DOMAIN muscle_sets |-> muscle_of(muscle_sets[k])])
      muscle_volume(m) ==
        ListVolume(db, SelectSeq(muscle_sets, LAMBDA i : muscle_of(i) = m))
  IN
  IF session_seq = <<>> \/ total_workouts = 0 THEN ZeroOverview
  ELSE
  [status |-> HTTP_200_OK,
   total_workouts |-> total_workouts,
   total_duration |-> RoundHalfEven(total_seconds, 60),
   total_volume |-> total_volume,
   avg_workout_duration |-> RoundHalfEven(total_seconds, 60 * total_workouts),
   most_trained_muscle |-> 
     IF muscles = <<>> THEN "None"
     ELSE FirstMax(muscles, [k \in DOMAIN muscles |-> muscle_volume(muscles[k])]),
   workout_consistency |-> WorkoutConsistency(db, session_seq, total_workouts),
   most_recent_workout |-> db.sessions[most_recent].completed_at,
   busiest_day |->
     MostCommon([k \in DOMAIN session_seq |->
                   WeekdayName(DateOf(db.sessions[session_seq[k]].started_at))]),
   busiest_time |->
     MostCommon([k \in DOMAIN session_seq |->
                   TimeOfDay(HourOf(db.sessions[session_seq[k]].started_at))])]

(* trends *)
Metrics == {"volume", "duration", "frequency"}
Periods == {"daily", "weekly", "monthly"}

\* every bucket taken as a calendar day
BucketStart_Daily(period, t) == DateOf(t)

\* the first day of the bucket a completion instant falls into
BucketStart(period, t) ==
  LET day == DateOf(t)
  IN IF period = "daily" THEN day
     ELSE IF period = "weekly" THEN day - (day % DaysPerWeek)
     ELSE day - (day % DaysPerMonth)

SessionVolume(db, s) ==
  LET ids == {i \in DOMAIN db.sets : SessionOfSet(db, i) = s /\ HasVolume(db, i)}
  IN ListVolume(db, SortIds(ids, [i \in ids |-> 0]))

\* every bucket valued as one workout
BucketValue_OnePerBucket(db, metric, bucket_sessions) == [n |-> 1, d |-> 1]

\* the value of one bucket as a fraction (duration is seconds / 60)
BucketValue(db, metric, bucket_sessions) ==
  IF metric = "volume"
    THEN [n |-> SumSeq([k \in DOMAIN bucket_sessions |-> SessionVolume(db, bucket_sessions[k])]),
          d |-> 1]
  ELSE IF metric = "duration"
    THEN [n |-> SumSeq([k \in DOMAIN bucket_sessions |->
                  IF Truthy(db.sessions[bucket_sessions[k]].active_duration)
                    THEN db.sessions[bucket_sessions[k]].active_duration ELSE 0]),
          d |-> 60]
  ELSE [n |-> Len(bucket_sessions), d |-> 1]

get_workout_trends(db, clock, user_id, filter, metric, period) ==
  LET session_set == CompletedSessions(db, clock, user_id, filter)
      session_seq == SortIds(session_set, [s \in session_set |-> 0])
      bucket_of(s) == BucketStart(period, db.sessions[s].completed_at)
      buckets == Dedupe([k \in DOMAIN session_seq |-> bucket_of(session_seq[k])])
      data_points ==
        [k \in DOMAIN buckets |->
           [date |-> DayFirstInstant(buckets[k]),
            value |-> BucketValue(db, metric,
                        SelectSeq(session_seq, LAMBDA s : bucket_of(s) = buckets[k]))]]
  IN [status |-> HTTP_200_OK, metric |-> metric, period |-> period,
      data |-> IF period \in Periods /\ metric \in Metrics
                 THEN StableSort(data_points,
                                 [k \in DOMAIN data_points |-> data_points[k].date])
                 ELSE <<>>]

(* ------------------------- statistics endpoints ----------------------- *)
\* a read that marks the sessions it went through
read_exercise_stats_Marking(user_id, exercise_id, filter) ==
  /\ Respond("read_exercise_stats",
             get_exercise_progress(DB, now, user_id, exercise_id, filter).status)
  /\ sessions' = [s \in DOMAIN sessions |->
                    IF sessions[s].user_id = user_id
                      THEN [sessions[s] EXCEPT !.name = "read"] ELSE sessions[s]]
  /\ UNCHANGED <<now, session_exercises, sets, templateTables>>

read_exercise_stats(user_id, exercise_id, filter) ==
  /\ Respond("read_exercise_stats",
             get_exercise_progress(DB, now, user_id, exercise_id, filter).status)
  /\ UNCHANGED <<now, sessionTables, templateTables>>

read_muscle_group_stats(user_id, filter) ==
  /\ Respond("read_muscle_group_stats", get_muscle_group_stats(DB, now, user_id, filter).status)
  /\ UNCHANGED <<now, sessionTables, templateTables>>

read_personal_records(user_id, filter, page, limit) ==
  /\ Respond("read_personal_records",
             get_personal_records(DB, now, user_id, filter, page, limit).status)
  /\ UNCHANGED <<now, sessionTables, templateTables>>

read_workout_overview(user_id, filter) ==
  /\ Respond("read_workout_overview", get_workout_overview(DB, now, user_id, filter).status)
  /\ UNCHANGED <<now, sessionTables, templateTables>>

read_workout_trends(user_id, filter, metric, period) ==
  /\ IF metric \notin Metrics \/ period \notin Periods
       THEN Respond("read_workout_trends", HTTP_400_BAD_REQUEST)
       ELSE Respond("read_workout_trends",
                    get_workout_trends(DB, now, user_id, filter, metric, period).status)
  /\ UNCHANGED <<now, sessionTables, templateTables>>

(* --------------------------- specifications --------------------------- *)
Init ==
  /\ now = 0
  /\ sessions = <<>>
  /\ session_exercises = <<>>
  /\ sets = <<>>
  /\ templates = <<>>
  /\ template_exercises = <<>>
  /\ template_sets = <<>>
  /\ resp = HTTP_200_OK
  /\ pending = [w \in Workers |-> Idle]

\* request ids: every id a table can hold, so unknown ids are tried too
SessionIds == 1..MaxSessions
SessionExerciseIds == 1..MaxSessionExercises

\* the sets a client logs in the statistics runs: [reps, weight, is_warmup]
LoggedSets ==
  { [reps |-> 20, weight |-> 50,   is_warmup |-> FALSE],
    [reps |-> 1,  weight |-> 100,  is_warmup |-> FALSE],
    [reps |-> 20, weight |-> 100,  is_warmup |-> FALSE],
    [reps |-> 0,  weight |-> 100,  is_warmup |-> FALSE],
    [reps |-> 20, weight |-> NULL, is_warmup |-> FALSE],
    [reps |-> 20, weight |-> 100,  is_warmup |-> TRUE],
    [reps |-> 37, weight |-> 50,   is_warmup |-> FALSE],
    [reps |-> 38, weight |-> 50,   is_warmup |-> FALSE] }

\* the filters the statistics runs ask with
Filters ==
  { NoFilter,
    [start_date |-> 1, end_date |-> 1, period |-> "week"],
    [start_date |-> NULL, end_date |-> 0, period |-> "all"] }

PageLimits == 1..2
\* page numbers up to the first page past any record list
Pages == 0..(MaxSets + 1)

\* the parameters the statistics endpoints are called with in the runs
ReadFilters == {NoFilter, [start_date |-> 1, end_date |-> 1, period |-> "week"]}

\* one user logging workouts day by day and reading an exercise's progress
Next ==
  \/ Tick(DayLen, MaxTime)
  \/ create_session(1, "a", <<>>)
  \/ \E s \in SessionIds, e \in ExerciseIds : add_exercise_to_session(1, s, e, 1)
  \/ \E s \in SessionIds, x \in SessionExerciseIds, p \in LoggedSets :
        log_set(1, s, x, 1, p.reps, p.weight, p.is_warmup)
  \/ \E s \in SessionIds : complete_session(1, s, NULL)
  \/ \E e \in RequestExerciseIds, f \in ReadFilters : read_exercise_stats(1, e, f)

Spec == Init /\ [][Next]_vars

(* ------------------------------ claims -------------------------------- *)
\* the sets the exercise-progress claims speak of: the non-warmup sets of
\* exercise e in sessions of user u that started inside the window f
ClaimSets(u, e, f) ==
  {i \in DOMAIN sets :
     LET x == session_exercises[sets[i].workout_session_exercise_id]
     IN /\ sessions[x.workout_session_id].user_id = u
        /\ x.exercise_id = e
        /\ ~sets[i].is_warmup
        /\ apply_date_filter(f, sessions[x.workout_session_id].started_at, now)}
Progress(u, e, f) == get_exercise_progress(DB, now, u, e, f)
StartedAtOfSet(i) ==
  sessions[session_exercises[sets[i].workout_session_exercise_id].workout_session_id].started_at
SameReps(reported, stored) == reported = stored \/ (reported = NULL /\ stored = 0)

\* C1: with at least one non-warmup set of non-null weight in the window,
\* personal_record_weight is the largest weight over all such sets of all
\* sessions, personal_record_reps the reps of a set achieving it, and
\* personal_record_date the start of that set's session.
C1_PersonalRecordIsOverallMax ==
  \A u \in Users, e \in ExerciseIds, f \in Filters :
     LET r == Progress(u, e, f)
         Q == {i \in ClaimSets(u, e, f) : sets[i].weight # NULL}
     IN (r.status = HTTP_200_OK /\ Q # {}) =>
          /\ \A i \in Q : sets[i].weight <= r.personal_record_weight
          /\ \E i \in Q : /\ sets[i].weight = r.personal_record_weight
                          /\ SameReps(r.personal_record_reps, sets[i].reps_completed)
                          /\ StartedAtOfSet(i) = r.personal_record_date

\* C2: no stored set makes get_exercise_progress or get_personal_records
\* raise, and no estimated one-rep-max in a response is negative.
C2_NoRaiseNoNegativeEstimate ==
  /\ \A u \in Users, e \in ExerciseIds, f \in Filters :
        LET r == Progress(u, e, f)
        IN /\ r.status = HTTP_200_OK
           /\ r.one_rep_max_estimated # NullRat => r.one_rep_max_estimated.n >= 0
  /\ \A u \in Users, f \in Filters :
        LET r == get_personal_records(DB, now, u, f, 0, MaxSets + 1)
        IN /\ r.status = HTTP_200_OK
           /\ \A k \in DOMAIN r.records : r.records[k].estimated_one_rep_max.n >= 0

\* the Brzycki value of set i as the claims state it
ClaimEstimate(i) == estimate_one_rep_max(sets[i].weight, sets[i].reps_completed)

\* C9: one_rep_max_estimated is the largest Brzycki estimate over all the
\* user's in-window non-warmup sets with weight and reps, and null when no
\* such set gives a positive estimate.
C9_OneRepMaxIsMaxOverSets ==
  \A u \in Users, e \in ExerciseIds, f \in Filters :
     LET r == Progress(u, e, f)
         Q == {i \in ClaimSets(u, e, f) :
                 /\ sets[i].weight # NULL
                 /\ sets[i].reps_completed # NULL
                 /\ RatLess(RatZero, ClaimEstimate(i))}
     IN r.status = HTTP_200_OK =>
          IF Q = {} THEN r.one_rep_max_estimated = NullRat
          ELSE /\ r.one_rep_max_estimated # NullRat
               /\ \A i \in Q : ~RatLess(r.one_rep_max_estimated, ClaimEstimate(i))
               /\ \E i \in Q : RatEq(r.one_rep_max_estimated, ClaimEstimate(i))

\* C9 witness: the best estimate comes from a set lighter than the record set
C9_Witness ==
  \E u \in Users, e \in ExerciseIds :
     LET r == Progress(u, e, NoFilter)
     IN /\ r.status = HTTP_200_OK
        /\ r.one_rep_max_estimated # NullRat
        /\ \E i, j \in ClaimSets(u, e, NoFilter) :
              /\ HasVolume(DB, i) /\ HasVolume(DB, j)
              /\ sets[i].weight > sets[j].weight
              /\ RatLess(ClaimEstimate(i), ClaimEstimate(j))
              /\ RatEq(r.one_rep_max_estimated, ClaimEstimate(j))

RECURSIVE SumOver(_, _)
SumOver(S, f) ==
  IF S = {} THEN 0 ELSE LET x == CHOOSE y \in S : TRUE IN f[x] + SumOver(S \ {x}, f)

\* the sets of session s that count toward its volume, and their total
ClaimVolumeSets(u, e, f, s) ==
  {i \in ClaimSets(u, e, f) :
     /\ session_exercises[sets[i].workout_session_exercise_id].workout_session_id = s
     /\ sets[i].weight # NULL
     /\ sets[i].reps_completed # NULL}
ClaimVolume(u, e, f, s) ==
  SumOver(ClaimVolumeSets(u, e, f, s),
          [i \in DOMAIN sets |-> sets[i].weight * sets[i].reps_completed])
Ascending(points) ==
  \A j, k \in DOMAIN points : j < k => points[j].date <= points[k].date
\* the points are exactly one per session of S, carrying its date and volume
PointsMatch(points, S, u, e, f) ==
  /\ Len(points) = Cardinality(S)
  /\ \A k \in DOMAIN points :
        Cardinality({j \in DOMAIN points : points[j] = points[k]}) =
        Cardinality({s \in S : /\ sessions[s].started_at = points[k].date
                               /\ ClaimVolume(u, e, f, s) = points[k].volume})

\* C10 (as stated): volume_over_time has exactly one point for each in-window
\* session with at least one non-warmup set of non-null weight and reps, its
\* volume the sum of weight * reps over those sets, and both series ascend by
\* session start date.
C10_PointPerSessionWithASet ==
  \A u \in Users, e \in ExerciseIds, f \in Filters :
     LET r == Progress(u, e, f)
         S == {s \in DOMAIN sessions : ClaimVolumeSets(u, e, f, s) # {}}
     IN r.status = HTTP_200_OK =>
          /\ PointsMatch(r.volume_over_time, S, u, e, f)
          /\ Ascending(r.volume_over_time)
          /\ Ascending(r.max_weight_over_time)

\* C10 (amended): volume_over_time has exactly one point for each in-window
\* session whose non-warmup sets of the exercise have a positive total of
\* weight * reps, its volume that total; a session whose total is zero has
\* no point; both series ascend by session start date.
C10_PointPerSessionWithVolume ==
  \A u \in Users, e \in ExerciseIds, f \in Filters :
     LET r == Progress(u, e, f)
         S == {s \in DOMAIN sessions : ClaimVolume(u, e, f, s) > 0}
     IN r.status = HTTP_200_OK =>
          /\ PointsMatch(r.volume_over_time, S, u, e, f)
          /\ Ascending(r.volume_over_time)
          /\ Ascending(r.max_weight_over_time)

\* C10 witness: one session has a point, another has a set with weight and
\* reps whose product is zero and has none
C10_Witness ==
  \E u \in Users, e \in ExerciseIds :
     LET r == Progress(u, e, NoFilter)
     IN /\ r.status = HTTP_200_OK
        /\ Len(r.volume_over_time) = 1
        /\ \E s \in DOMAIN sessions :
              /\ ClaimVolumeSets(u, e, NoFilter, s) # {}
              /\ ClaimVolume(u, e, NoFilter, s) = 0

(* ---------------------- personal records (C3, C4) ---------------------- *)
RecordSets == {[reps |-> 5, weight |-> 50, is_warmup |-> FALSE],
               [reps |-> 5, weight |-> 100, is_warmup |-> FALSE],
               [reps |-> 3, weight |-> 100, is_warmup |-> FALSE],
               [reps |-> 5, weight |-> 120, is_warmup |-> TRUE]}

NextRecords ==
  \/ Tick(DayLen, MaxTime)
  \/ create_session(1, "a", <<>>)
  \/ \E s \in SessionIds, e \in ExerciseIds : add_exercise_to_session(1, s, e, 1)
  \/ \E s \in SessionIds, x \in SessionExerciseIds, p \in RecordSets :
        log_set(1, s, x, 1, p.reps, p.weight, p.is_warmup)
  \/ \E s \in SessionIds : complete_session(1, s, NULL)
  \/ \E page \in Pages, limit \in PageLimits :
        read_personal_records(1, NoFilter, page, limit)

SpecRecords == Init /\ [][NextRecords]_vars

\* a limit no smaller than any record list the bounds allow
FullLimit == MaxSets + 1
Records(u, f, page, limit) == get_personal_records(DB, now, u, f, page, limit)
FullRecords(u, f) == Records(u, f, 0, FullLimit)

\* C3: at most one record per (exercise, reps); a record's weight is the
\* largest weight over the user's in-window non-warmup sets of the exercise
\* with that rep count, its estimate is the Brzycki value of that weight and
\* rep count, and a set carrying it lies in a completed session.
C3_OneRecordPerExerciseAndReps ==
  \A u \in Users, f \in Filters :
     LET r == FullRecords(u, f)
     IN r.status = HTTP_200_OK =>
          /\ \A j, k \in DOMAIN r.records :
                (/\ r.records[j].exercise_id = r.records[k].exercise_id
                 /\ r.records[j].reps = r.records[k].reps) => j = k
          /\ \A k \in DOMAIN r.records :
                LET rec == r.records[k]
                    Q == {i \in ClaimSets(u, rec.exercise_id, f) :
                            /\ sets[i].weight # NULL
                            /\ sets[i].reps_completed = rec.reps}
                IN /\ \A i \in Q : sets[i].weight <= rec.weight
                   /\ \E i \in Q :
                         /\ sets[i].weight = rec.weight
                         /\ sessions[session_exercises[sets[i].workout_session_exercise_id]
                                       .workout_session_id].completed_at # NULL
                   /\ IF rec.reps = 1
                        THEN rec.estimated_one_rep_max.n = rec.weight * rec.estimated_one_rep_max.d
                        ELSE rec.estimated_one_rep_max.n * (37 - rec.reps) =
                             rec.weight * 36 * rec.estimated_one_rep_max.d
                   /\ rec.estimated_one_rep_max.d # 0

\* C3 witness: a record exists although a lighter set of the same exercise
\* and rep count is stored, and another set of the user lies in a session
\* that is not completed
C3_Witness ==
  \E u \in Users :
     LET r == FullRecords(u, NoFilter)
     IN /\ r.status = HTTP_200_OK
        /\ \E k \in DOMAIN r.records :
              \E i \in ClaimSets(u, r.records[k].exercise_id, NoFilter) :
                 /\ sets[i].reps_completed = r.records[k].reps
                 /\ sets[i].weight # NULL
                 /\ sets[i].weight < r.records[k].weight
        /\ \E s \in DOMAIN sessions : sessions[s].completed_at = NULL

\* the record lists of pages first, first + 1, ..., last, joined
RECURSIVE ConcatPages(_, _, _)
ConcatPages(pages, first, last) ==
  IF first > last THEN <<>>
  ELSE pages[first].records \o ConcatPages(pages, first + 1, last)

\* C4: for every limit, the pages 0, 1, 2, ... concatenated are the full
\* record list, which is in non-increasing order of estimated_one_rep_max
\* and holds each (exercise, reps) once; no page is longer than the limit,
\* and total_count on every page is the length of the full list.
C4_PagesConcatenateToFullList ==
  \A u \in Users, f \in Filters :
     \A full \in {FullRecords(u, f)} :
        full.status = HTTP_200_OK =>
          /\ \A j, k \in DOMAIN full.records :
                /\ j < k => ~RatLess(full.records[j].estimated_one_rep_max,
                                     full.records[k].estimated_one_rep_max)
                /\ (/\ full.records[j].exercise_id = full.records[k].exercise_id
                    /\ full.records[j].reps = full.records[k].reps) => j = k
          /\ \A limit \in PageLimits :
                \A pages \in {[page \in Pages |-> Records(u, f, page, limit)]} :
                   /\ ConcatPages(pages, 0, Len(full.records) \div limit) = full.records
                   /\ \A page \in Pages :
                         /\ pages[page].status = HTTP_200_OK
                         /\ Len(pages[page].records) <= limit
                         /\ pages[page].total_count = Len(full.records)
                         /\ page * limit >= Len(full.records) => pages[page].records = <<>>

\* C4 witness: two records of different estimates, served one per page
C4_Witness ==
  \E u \in Users :
     LET full == FullRecords(u, NoFilter)
     IN /\ full.status = HTTP_200_OK
        /\ Len(full.records) = 2
        /\ RatLess(full.records[2].estimated_one_rep_max, full.records[1].estimated_one_rep_max)
        /\ Records(u, NoFilter, 0, 1).records = <<full.records[1]>>
        /\ Records(u, NoFilter, 1, 1).records = <<full.records[2]>>
        /\ resp = HTTP_200_OK

(* ------------------------- workout overview (C5) ----------------------- *)
\* instants the overview runs last: long enough for a span of three days
LongTime == 6

NextOverview ==
  \/ Tick(1, LongTime)
  \/ create_session(1, "a", <<>>)
  \/ \E s \in SessionIds : complete_session(1, s, NULL)
  \/ \E f \in ReadFilters : read_workout_overview(1, f)

SpecOverview == Init /\ [][NextOverview]_vars

Overview(u, f) == get_workout_overview(DB, now, u, f)
SessionsInRange(u, f) ==
  {s \in DOMAIN sessions :
     sessions[s].user_id = u /\ apply_date_filter(f, sessions[s].started_at, now)}
WorkoutsInRange(u, f) == {s \in SessionsInRange(u, f) : sessions[s].completed_at # NULL}
Earliest(S) == CHOOSE t \in {sessions[s].started_at : s \in S} :
                  \A s \in S : t <= sessions[s].started_at
Latest(S) == CHOOSE t \in {sessions[s].started_at : s \in S} :
                \A s \in S : t >= sessions[s].started_at
\* c, in tenths of a percent, is min(100, (workouts / (days / 7)) / 3 * 100)
\* rounded to one decimal
IsWeeklyRate(c, workouts, days) ==
  IF workouts * 7000 >= 1000 * 3 * days THEN c = 1000
  ELSE LET diff == c * 3 * days - workouts * 7000
       IN 2 * diff <= 3 * days /\ 2 * diff >= 0 - 3 * days

\* C5 (as stated): workout_consistency is 100 whenever there is a completed
\* workout in range and all workouts fall on one calendar day, 0 only when
\* there is no workout, otherwise min(100, (completed / (days between first
\* and last / 7)) / 3 * 100), and always within [0, 100].
C5_SingleDayIsFullConsistency ==
  \A u \in Users, f \in Filters :
     \A r \in {Overview(u, f)} :
        LET W == WorkoutsInRange(u, f)
            days == {DateOf(sessions[s].started_at) : s \in W}
            c == r.workout_consistency
        IN /\ r.status = HTTP_200_OK
           /\ c \in 0..1000
           /\ (W # {} /\ Cardinality(days) = 1) => c = 1000
           /\ c = 0 => W = {}
           /\ Cardinality(days) > 1 =>
                IsWeeklyRate(c, Cardinality(W), DateOf(Latest(W)) - DateOf(Earliest(W)))

\* C5 (amended): workout_consistency is 0 when the range holds no completed
\* workout or fewer than two sessions; otherwise, over all sessions in range,
\* completed or not, it is 100 when the earliest and the latest start less
\* than a day apart, and else min(100, (completed / (whole days between the
\* two starts / 7)) / 3 * 100) rounded to one decimal; it is always within
\* [0, 100] and the call never fails.
C5_ConsistencyOverSessionSpan ==
  \A u \in Users, f \in Filters :
     \A r \in {Overview(u, f)} :
        LET S == SessionsInRange(u, f)
            W == WorkoutsInRange(u, f)
            c == r.workout_consistency
        IN /\ r.status = HTTP_200_OK
           /\ c \in 0..1000
           /\ IF W = {} \/ Cardinality(S) < 2 THEN c = 0
              ELSE IF Latest(S) - Earliest(S) < DayLen THEN c = 1000
              ELSE IsWeeklyRate(c, Cardinality(W), (Latest(S) - Earliest(S)) \div DayLen)

\* C5 witness: one completed workout alone in range scores 0, and with a
\* second session three days later the weekly rate is below the target
C5_Witness ==
  /\ Overview(1, NoFilter).workout_consistency \notin {0, 1000}
  /\ Cardinality(WorkoutsInRange(1, NoFilter)) = 1
  /\ \E f \in Filters :
        /\ Cardinality(SessionsInRange(1, f)) = 1
        /\ WorkoutsInRange(1, f) # {}
        /\ Overview(1, f).workout_consistency = 0
  /\ resp = HTTP_200_OK

(* ------------------------ session lifecycle (C6) ----------------------- *)
\* the calls user u can make on session s
SessionCall(u, s) ==
  \/ update_session(u, s, "b")
  \/ complete_session(u, s, NULL)
  \/ \E e \in {1, 3} : session_exercises = <<>> /\ add_exercise_to_session(u, s, e, 1)
  \/ start_exercise(u, s, 1)
  \/ complete_exercise(u, s, 1)
  \/ log_set(u, s, 1, 1, 5, 50, FALSE)
  \/ update_set(u, s, 1, 1, 6, NULL, NullStr)
  \/ start_rest(u, s, 1, 1)
  \/ end_rest(u, s, 1, 1)
  \/ \E o \in {<<1>>, <<>>} : create_superset(u, s, <<1>>, o)

NextSessions ==
  \/ Tick(DayLen, MaxTime)
  \/ create_session(1, "a", <<>>)
  \/ \E u \in Users, s \in SessionIds : SessionCall(u, s)

SpecSessions == Init /\ [][NextSessions]_vars

ExercisesOfSession(tbl, s) == {x \in DOMAIN tbl : tbl[x].workout_session_id = s}
SetsUnder(tbl, xs) == {i \in DOMAIN tbl : tbl[i].workout_session_exercise_id \in xs}

\* session s, its session exercises and its sets are the same after the step
SessionUntouched(s) ==
  /\ sessions'[s] = sessions[s]
  /\ ExercisesOfSession(session_exercises', s) = ExercisesOfSession(session_exercises, s)
  /\ \A x \in ExercisesOfSession(session_exercises, s) :
        session_exercises'[x] = session_exercises[x]
  /\ SetsUnder(sets', ExercisesOfSession(session_exercises, s)) =
     SetsUnder(sets, ExercisesOfSession(session_exercises, s))
  /\ \A i \in SetsUnder(sets, ExercisesOfSession(session_exercises, s)) : sets'[i] = sets[i]

\* C6: once a session has completed_at, no step changes its row, its session
\* exercises or its sets, and every call its owner makes on it (complete,
\* update, add exercise, start / complete exercise, log / update set, start /
\* end rest, create superset) is answered 400.
C6_CompletedSessionImmutable ==
  [][\A s \in DOMAIN sessions :
        sessions[s].completed_at # NULL =>
          /\ SessionUntouched(s)
          /\ SessionCall(sessions[s].user_id, s) => resp' = HTTP_400_BAD_REQUEST]_vars

\* C6 witness: every session is completed, one of them holds an exercise
\* with a set, and the last call was answered 400
C6_Witness ==
  /\ sessions # <<>>
  /\ \A s \in DOMAIN sessions : sessions[s].completed_at # NULL
  /\ \E i \in DOMAIN sets : sets[i].rest_start_time # NULL
  /\ resp = HTTP_400_BAD_REQUEST

(* ------------------------ template ownership (C7) ---------------------- *)
\* the template operations user u can call with template id t
TemplateCall(u, t) ==
  \/ get_template_with_exercises(u, t)
  \/ update_template(u, t, "b")
  \/ delete_template(u, t)
  \/ \E e \in Orders : add_exercise_to_template(u, t, 1, e)
  \/ update_template_exercise(u, t, 1, 2, NULL, NULL)
  \/ delete_template_exercise(u, t, 1)
  \/ \E n \in SetNumbers, r \in TargetReps, w \in TargetWeights :
        add_set_to_template_exercise(u, t, 1, n, r, w, FALSE)
  \/ update_template_set(u, t, 1, 1, 10, NULL, NullStr)
  \/ delete_template_set(u, t, 1, 1)
  \/ template_create_superset(u, t, <<1>>, <<1>>)
  \/ delete_superset(u, t, 1)

TemplateIds == 1..MaxTemplates

NextTemplates ==
  \/ create_template(1, "a")
  \/ \E u \in Users, t \in TemplateIds : TemplateCall(u, t)
  \/ \E u \in Users, tids \in {<<>>, <<1>>, <<2>>} : create_session(u, "a", tids)

SpecTemplates == Init /\ [][NextTemplates]_vars

\* C7: a call that names a template its caller does not own leaves the
\* template, its exercises and its sets unchanged, and either answers 404 or
\* (starting a session with the id in template_ids) copies none of the
\* template's exercises and sets into the caller's session.
C7_NonOwnerCannotUseTemplate ==
  [][\A u \in Users, t \in Live(templates) :
        templates[t].user_id # u =>
          /\ TemplateCall(u, t) =>
               /\ resp' = HTTP_404_NOT_FOUND
               /\ UNCHANGED templateTables
          /\ create_session(u, "a", <<t>>) =>
               /\ UNCHANGED templateTables
               /\ \/ resp' = HTTP_404_NOT_FOUND
                  \/ UNCHANGED <<session_exercises, sets>>]_vars

(* ------------------------- user isolation (C8) ------------------------- *)
UserSets == {[reps |-> 5, weight |-> 50], [reps |-> 3, weight |-> 100]}

\* two users logging workouts side by side and reading their statistics
NextUsers ==
  \/ Tick(DayLen, MaxTime)
  \/ \E u \in Users : create_session(u, "a", <<>>)
  \/ \E u \in Users, s \in SessionIds : add_exercise_to_session(u, s, 1, 1)
  \/ \E u \in Users, s \in SessionIds, x \in SessionExerciseIds, p \in UserSets :
        log_set(u, s, x, 1, p.reps, p.weight, FALSE)
  \/ \E u \in Users, s \in SessionIds : complete_session(u, s, NULL)
  \/ \E u \in Users : read_exercise_stats(u, 1, NoFilter)
  \/ \E u \in Users : read_muscle_group_stats(u, NoFilter)
  \/ \E u \in Users : read_personal_records(u, NoFilter, 0, 1)
  \/ \E u \in Users : read_workout_overview(u, NoFilter)
  \/ \E u \in Users, m \in {"volume", "pace"} : read_workout_trends(u, NoFilter, m, "weekly")

SpecUsers == Init /\ [][NextUsers]_vars

\* the rows user u owns: sessions, their exercises, their sets, with their ids
OwnSessions(u) == {s \in DOMAIN sessions : sessions[s].user_id = u}
OwnExercises(u) ==
  {x \in DOMAIN session_exercises : session_exercises[x].workout_session_id \in OwnSessions(u)}
OwnSets(u) ==
  {i \in DOMAIN sets : sets[i].workout_session_exercise_id \in OwnExercises(u)}

\* the stored state with every row of the other users deleted
OwnDB(u) ==
  [sessions |-> [s \in OwnSessions(u) |-> sessions[s]],
   session_exercises |-> [x \in OwnExercises(u) |-> session_exercises[x]],
   sets |-> [i \in OwnSets(u) |-> sets[i]]]

\* what the five aggregators return to user u from the stored state db
Results(db, u) ==
  <<[e \in ExerciseIds, f \in ReadFilters |-> get_exercise_progress(db, now, u, e, f)],
    [f \in ReadFilters |-> get_muscle_group_stats(db, now, u, f)],
    [f \in ReadFilters |-> get_personal_records(db, now, u, f, 0, FullLimit)],
    [f \in ReadFilters |-> get_workout_overview(db, now, u, f)],
    [f \in ReadFilters, m \in Metrics, p \in Periods |->
       get_workout_trends(db, now, u, f, m, p)]>>

\* C8: two stored states that differ only in rows owned by other users give
\* user u the same result from all five aggregators: each result equals the
\* one computed with the other users' sessions, session exercises and sets
\* deleted.
C8_OtherUsersRowsDoNotMatter ==
  \A u \in Users : Results(DB, u) = Results(OwnDB(u), u)

\* C8 witness: both users hold a session with a logged set of the same
\* exercise, and the other user's set is the heavier
C8_Witness ==
  \E i \in OwnSets(1), j \in OwnSets(2) :
     /\ sets[j].weight > sets[i].weight
     /\ sessions[SessionOfSet(DB, j)].completed_at # NULL
     /\ get_exercise_progress(DB, now, 1, 1, NoFilter).personal_record_weight = sets[i].weight
     /\ resp = HTTP_200_OK

(* ------------------------ overview (C11, C12) -------------------------- *)
WorkoutSets ==
  { [reps |-> 5, weight |-> 100],
    [reps |-> 0, weight |-> 100],
    [reps |-> 5, weight |-> NULL] }

\* the clock moves six days at a time, up to the first day of the second month
WorkoutStep == DayLen * (DaysPerWeek - 1)
WorkoutHorizon == DayLen * DaysPerMonth

WorkoutFilters ==
  { NoFilter,
    [start_date |-> NULL, end_date |-> NULL, period |-> "week"],
    [start_date |-> 6, end_date |-> 12, period |-> "all"] }

\* one user logging workouts over a month and reading the overview
NextWorkouts ==
  \/ Tick(WorkoutStep, WorkoutHorizon)
  \/ create_session(1, "a", <<>>)
  \/ \E s \in SessionIds : add_exercise_to_session(1, s, 1, 1)
  \/ \E s \in SessionIds, x \in SessionExerciseIds, p \in WorkoutSets :
        log_set(1, s, x, 1, p.reps, p.weight, FALSE)
  \/ \E s \in SessionIds : complete_session(1, s, NULL)
  \/ \E f \in WorkoutFilters : read_workout_overview(1, f)

SpecWorkouts == Init /\ [][NextWorkouts]_vars

\* the sets with weight and reps stored under the sessions S, and their total
SetsWithVolumeIn(S) ==
  {i \in DOMAIN sets :
     /\ session_exercises[sets[i].workout_session_exercise_id].workout_session_id \in S
     /\ sets[i].weight # NULL
     /\ sets[i].reps_completed # NULL}
VolumeIn(S) ==
  SumOver(SetsWithVolumeIn(S), [i \in DOMAIN sets |-> sets[i].weight * sets[i].reps_completed])
SecondsIn(S) ==
  SumOver(S, [s \in DOMAIN sessions |->
                IF sessions[s].active_duration = NULL THEN 0 ELSE sessions[s].active_duration])

\* C11: total_workouts is the number of the user's in-range sessions with a
\* completed_at; when that number is 0 the overview is all zero, with
\* most_trained_muscle "None", and the call does not fail.
C11_NoWorkoutGivesZeroOverview ==
  \A u \in Users, f \in WorkoutFilters :
     \A r \in {Overview(u, f)} :
        /\ r.status = HTTP_200_OK
        /\ r.total_workouts = Cardinality(WorkoutsInRange(u, f))
        /\ WorkoutsInRange(u, f) = {} =>
             /\ r.total_workouts = 0
             /\ r.total_duration = 0
             /\ r.total_volume = 0
             /\ r.avg_workout_duration = 0
             /\ r.most_trained_muscle = "None"
             /\ r.workout_consistency = 0

\* C11 witness: a session in range holds a set with volume but is not
\* completed, and the overview is all zero
C11_Witness ==
  /\ SessionsInRange(1, NoFilter) # {}
  /\ WorkoutsInRange(1, NoFilter) = {}
  /\ VolumeIn(SessionsInRange(1, NoFilter)) > 0
  /\ Overview(1, NoFilter).total_volume = 0
  /\ Overview(1, NoFilter).most_trained_muscle = "None"
  /\ resp = HTTP_200_OK

TrendSets == {[reps |-> 5, weight |-> 100], [reps |-> 5, weight |-> NULL]}

TrendFilters == {NoFilter, [start_date |-> NULL, end_date |-> NULL, period |-> "week"]}

\* one user logging workouts over a month and reading the trend series
NextTrends ==
  \/ Tick(WorkoutStep, WorkoutHorizon)
  \/ create_session(1, "a", <<>>)
  \/ \E s \in SessionIds : add_exercise_to_session(1, s, 1, 1)
  \/ \E s \in SessionIds, x \in SessionExerciseIds, p \in TrendSets :
        log_set(1, s, x, 1, p.reps, p.weight, FALSE)
  \/ \E s \in SessionIds : complete_session(1, s, NULL)
  \/ \E f \in TrendFilters, m \in {"volume", "frequency", "pace"} :
        read_workout_trends(1, f, m, "weekly")
  \/ \E f \in TrendFilters : read_workout_overview(1, f)

SpecTrends == Init /\ [][NextTrends]_vars

\* the completed in-range sessions whose completion falls on a day of
\* first..last
CompletedWithin(u, f, first, last) ==
  {s \in WorkoutsInRange(u, f) :
     /\ first * DayLen <= sessions[s].completed_at
     /\ sessions[s].completed_at < (last + 1) * DayLen}

\* the length in days of a bucket; day 0 is a Monday and the first of a month
BucketDays(period) ==
  IF period = "daily" THEN 1 ELSE IF period = "weekly" THEN DaysPerWeek ELSE DaysPerMonth

\* the first days of the buckets up to the clock
BucketStarts(period) ==
  {d \in 0..(now \div DayLen) : d % BucketDays(period) = 0}

\* the value the claim gives a bucket holding the sessions S
ManualValue(metric, S) ==
  IF metric = "volume" THEN [n |-> VolumeIn(S), d |-> 1]
  ELSE IF metric = "duration" THEN [n |-> SecondsIn(S), d |-> 60]
  ELSE [n |-> Cardinality(S), d |-> 1]

\* C16: for each metric and period the series has exactly one point for each
\* bucket (day, Monday-anchored week, month) holding a completed in-range
\* session and none for an empty bucket, the points ascend strictly by
\* bucket start, and each value is the sum over the bucket's completed
\* sessions: weight * reps of their sets with weight and reps, their
\* active_duration / 60, or their number.
C16_OnePointPerPopulatedBucket ==
  \A u \in {1}, f \in TrendFilters, m \in Metrics, p \in Periods :
     \A r \in {get_workout_trends(DB, now, u, f, m, p)} :
        LET held(b) == CompletedWithin(u, f, b, b + BucketDays(p) - 1)
            populated == {b \in BucketStarts(p) : held(b) # {}}
        IN /\ r.status = HTTP_200_OK
           /\ Len(r.data) = Cardinality(populated)
           /\ \A j, k \in DOMAIN r.data : j < k => r.data[j].date < r.data[k].date
           /\ \A k \in DOMAIN r.data :
                 \E b \in populated :
                    /\ r.data[k].date = b * DayLen
                    /\ RatEq(r.data[k].value, ManualValue(m, held(b)))

\* C16 witness: two sessions completed in one week but on different days, the
\* first of them without volume, give one weekly point and two daily points
C16_Witness ==
  \E s, t \in WorkoutsInRange(1, NoFilter) :
     /\ DateOf(sessions[s].completed_at) < DateOf(sessions[t].completed_at)
     /\ VolumeIn({s}) = 0
     /\ VolumeIn({t}) > 0
     /\ Len(get_workout_trends(DB, now, 1, NoFilter, "volume", "weekly").data) = 1
     /\ get_workout_trends(DB, now, 1, NoFilter, "volume", "weekly").data[1].value.n
          = VolumeIn({t})
     /\ Len(get_workout_trends(DB, now, 1, NoFilter, "frequency", "daily").data) = 2
     /\ resp = HTTP_200_OK

(* --------------------- muscle groups (C13, C14, C15) ------------------- *)
MuscleSets ==
  { [reps |-> 5, weight |-> 100,     is_warmup |-> TRUE],
    [reps |-> 0, weight |-> 100,     is_warmup |-> FALSE],
    [reps |-> 5, weight |-> 0 - 100, is_warmup |-> FALSE],
    [reps |-> 5, weight |-> NULL,    is_warmup |-> FALSE] }

\* one user logging sets of two muscle groups and reading the group statistics
NextMuscles ==
  \/ Tick(DayLen, MaxTime)
  \/ create_session(1, "a", <<>>)
  \/ \E s \in SessionIds, e \in ExerciseIds : add_exercise_to_session(1, s, e, 1)
  \/ \E s \in SessionIds, x \in SessionExerciseIds, p \in MuscleSets :
        log_set(1, s, x, 1, p.reps, p.weight, p.is_warmup)
  \/ \E s \in SessionIds : complete_session(1, s, NULL)
  \/ \E f \in ReadFilters : read_muscle_group_stats(1, f)

SpecMuscles == Init /\ [][NextMuscles]_vars

MuscleStats(u, f) == get_muscle_group_stats(DB, now, u, f)
MuscleGroups == {Exercise[e].target_muscle_group : e \in ExerciseIds}

\* the stored sets of muscle group m in completed in-window sessions of user u
GroupSets(u, f, m) ==
  {i \in DOMAIN sets :
     LET x == session_exercises[sets[i].workout_session_exercise_id]
     IN /\ x.workout_session_id \in WorkoutsInRange(u, f)
        /\ Exercise[x.exercise_id].target_muscle_group = m}
GroupSetsNotNull(u, f, m) ==
  {i \in GroupSets(u, f, m) : sets[i].weight # NULL /\ sets[i].reps_completed # NULL}
GroupSetsNotZero(u, f, m) ==
  {i \in GroupSetsNotNull(u, f, m) : sets[i].weight # 0 /\ sets[i].reps_completed # 0}
ProductSum(Q) ==
  SumOver(Q, [i \in DOMAIN sets |-> sets[i].weight * sets[i].reps_completed])
EntriesOf(r, m) == {k \in DOMAIN r.muscle_groups : r.muscle_groups[k].muscle_group = m}

\* the stored state without the sessions that are not completed and their rows
CompletedDB ==
  LET S == {s \in DOMAIN sessions : sessions[s].completed_at # NULL}
      X == {x \in DOMAIN session_exercises : session_exercises[x].workout_session_id \in S}
      I == {i \in DOMAIN sets : sets[i].workout_session_exercise_id \in X}
  IN [sessions |-> [s \in S |-> sessions[s]],
      session_exercises |-> [x \in X |-> session_exercises[x]],
      sets |-> [i \in I |-> sets[i]]]

\* C13 (as stated): every group's volume is the sum of weight * reps and its
\* sets_count the number of sets, over the sets with non-null weight and reps
\* of the group in completed in-window sessions; sets of sessions that are
\* not completed change nothing in the result.
C13_CountOverSetsNotNull ==
  \A u \in Users, f \in ReadFilters :
     \A r \in {MuscleStats(u, f)} :
        /\ r = get_muscle_group_stats(CompletedDB, now, u, f)
        /\ \A m \in MuscleGroups :
              /\ Cardinality(EntriesOf(r, m)) <= 1
              /\ EntriesOf(r, m) = {} => GroupSetsNotNull(u, f, m) = {}
              /\ \A k \in EntriesOf(r, m) :
                    /\ r.muscle_groups[k].volume = ProductSum(GroupSetsNotNull(u, f, m))
                    /\ r.muscle_groups[k].sets_count = Cardinality(GroupSetsNotNull(u, f, m))

\* C13 (amended): every group's volume is the sum of weight * reps and its
\* sets_count the number of sets, over the sets whose weight and reps are
\* both non-null and non-zero, warmup or not, of the group in completed
\* in-window sessions; sets of sessions that are not completed change
\* nothing in the result.
C13_CountOverSetsWithVolume ==
  \A u \in Users, f \in ReadFilters :
     \A r \in {MuscleStats(u, f)} :
        /\ r = get_muscle_group_stats(CompletedDB, now, u, f)
        /\ \A m \in MuscleGroups :
              /\ Cardinality(EntriesOf(r, m)) <= 1
              /\ EntriesOf(r, m) = {} => GroupSetsNotZero(u, f, m) = {}
              /\ \A k \in EntriesOf(r, m) :
                    /\ r.muscle_groups[k].volume = ProductSum(GroupSetsNotZero(u, f, m))
                    /\ r.muscle_groups[k].sets_count = Cardinality(GroupSetsNotZero(u, f, m))

\* C13 witness: a completed session holds two sets of one group, a warmup
\* set that counts and a set of zero reps with a weight that does not
C13_Witness ==
  \E i, j \in DOMAIN sets :
     /\ SessionOfSet(DB, i) = SessionOfSet(DB, j)
     /\ sessions[SessionOfSet(DB, i)].completed_at # NULL
     /\ ExerciseOfSet(DB, i) = 1 /\ ExerciseOfSet(DB, j) = 1
     /\ sets[i].is_warmup /\ sets[i].weight > 0 /\ sets[i].reps_completed > 0
     /\ sets[j].reps_completed = 0 /\ sets[j].weight > 0
     /\ MuscleStats(1, NoFilter).muscle_groups[1].sets_count = 1
     /\ MuscleStats(1, NoFilter).muscle_groups[1].volume = sets[i].weight * sets[i].reps_completed
     /\ resp = HTTP_200_OK

\* C14: every activity_level lies in [0, 1], some group has activity_level 1
\* whenever a group has positive volume, and the list is ordered by
\* non-increasing activity_level.
C14_ActivityLevelWithinUnit ==
  \A u \in Users, f \in ReadFilters :
     \A r \in {MuscleStats(u, f)} :
        /\ \A k \in DOMAIN r.muscle_groups :
              /\ r.muscle_groups[k].activity_level.d > 0
              /\ ~RatLess(r.muscle_groups[k].activity_level, RatZero)
              /\ ~RatLess([n |-> 1, d |-> 1], r.muscle_groups[k].activity_level)
        /\ (\E k \in DOMAIN r.muscle_groups : r.muscle_groups[k].volume > 0) =>
              \E k \in DOMAIN r.muscle_groups :
                 RatEq(r.muscle_groups[k].activity_level, [n |-> 1, d |-> 1])
        /\ \A j, k \in DOMAIN r.muscle_groups :
              j < k => ~RatLess(r.muscle_groups[j].activity_level,
                                r.muscle_groups[k].activity_level)

\* C15 (as stated): when no group has a set with volume in the window the
\* list is empty, and no entry with volume 0 or activity_level 0 is ever
\* returned.
C15_NoEntryWithoutVolume ==
  \A u \in Users, f \in ReadFilters :
     \A r \in {MuscleStats(u, f)} :
        /\ (\A m \in MuscleGroups : GroupSetsNotZero(u, f, m) = {}) => r.muscle_groups = <<>>
        /\ \A k \in DOMAIN r.muscle_groups :
              /\ r.muscle_groups[k].volume # 0
              /\ ~RatEq(r.muscle_groups[k].activity_level, RatZero)

\* C15 (amended): the list holds exactly one entry for every muscle group
\* that has a stored set in a completed in-window session, and is empty only
\* when there is no such set; a group none of whose sets has weight and reps
\* gets an entry with volume 0, sets_count 0 and activity_level 0.
C15_EntryPerGroupWithASet ==
  \A u \in Users, f \in ReadFilters :
     \A r \in {MuscleStats(u, f)} :
        \A m \in MuscleGroups :
           /\ Cardinality(EntriesOf(r, m)) = IF GroupSets(u, f, m) = {} THEN 0 ELSE 1
           /\ \A k \in EntriesOf(r, m) :
                 GroupSetsNotZero(u, f, m) = {} =>
                   /\ r.muscle_groups[k].volume = 0
                   /\ r.muscle_groups[k].sets_count = 0
                   /\ RatEq(r.muscle_groups[k].activity_level, RatZero)

\* C15 witness: the completed sessions hold sets of both groups, none with
\* reps and weight, and the list has two entries of volume 0
C15_Witness ==
  /\ \A m \in MuscleGroups : GroupSets(1, NoFilter, m) # {}
  /\ \A m \in MuscleGroups : GroupSetsNotZero(1, NoFilter, m) = {}
  /\ Len(MuscleStats(1, NoFilter).muscle_groups) = 2
  /\ \A k \in 1..2 : MuscleStats(1, NoFilter).muscle_groups[k].volume = 0
  /\ resp = HTTP_200_OK

(* ------------------------- date filter (C17, C18) ---------------------- *)
\* every combination of explicit dates and period token, a missing period
\* and an unknown token included
FilterInputs ==
  [start_date : {NULL, 0, 6}, end_date : {NULL, 0, 6},
   period : {"all", "week", "month", "year", "decade", NullStr}]

FilterHorizon == DayLen * (PeriodDays("year") + 2 * (DaysPerWeek - 1))
\* six-day steps stop twelve days into the running year
StepHorizon ==
  DayLen * (PeriodDays("year") * (now \div (DayLen * PeriodDays("year")))
              + 2 * (DaysPerWeek - 1))

\* one user starting and completing workouts at the first or last instant of
\* a day, six days or a year apart, and reading the overview with a filter
NextFilters ==
  \/ now % DayLen = 0 /\ Tick(DayLen - 1, FilterHorizon + DayLen - 1)
  \/ Tick(WorkoutStep - (now % DayLen), StepHorizon)
  \/ Tick(DayLen * PeriodDays("year") - (now % DayLen), FilterHorizon)
  \/ create_session(1, "a", <<>>)
  \/ \E s \in SessionIds : complete_session(1, s, NULL)
  \/ \E f \in FilterInputs : read_workout_overview(1, f)

SpecFilters == Init /\ [][NextFilters]_vars

BothDates(f) == f.start_date # NULL /\ f.end_date # NULL
NamedPeriods == {"week", "month", "year"}
\* started_at is not older than the named period of f
WithinPeriod(f, s) == sessions[s].started_at >= now - PeriodDays(f.period) * DayLen
\* the completed sessions of user 1 among the sessions S
CompletedAmong(S) == {s \in S : sessions[s].user_id = 1 /\ sessions[s].completed_at # NULL}
\* the overview of user 1 under f counts exactly the completed sessions of S
OverviewCounts(f, S) ==
  get_workout_overview(DB, now, 1, f).total_workouts = Cardinality(CompletedAmong(S))

C18_ExplicitDatesWin ==
  \A f \in FilterInputs :
     BothDates(f) =>
        /\ OverviewCounts(f,
             {s \in DOMAIN sessions :
                /\ f.start_date * DayLen <= sessions[s].started_at
                /\ sessions[s].started_at < (f.end_date + 1) * DayLen})
        /\ f.start_date = f.end_date =>
             OverviewCounts(f, {s \in DOMAIN sessions :
                                  sessions[s].started_at \div DayLen = f.start_date})

\* C18 witness: more than a year on, the range of day 6 alone with period
\* week admits the workout started at the last instant of day 6 and not the
\* one of day 0
C18_Witness ==
  \E s, t \in DOMAIN sessions :
     /\ sessions[s].started_at = 6 * DayLen + (DayLen - 1)
     /\ sessions[t].started_at \div DayLen = 0
     /\ now \div DayLen > PeriodDays("year")
     /\ sessions[s].completed_at # NULL
     /\ sessions[t].completed_at # NULL
     /\ get_workout_overview(DB, now, 1, [start_date |-> 6, end_date |-> 6,
                                          period |-> "week"]).total_workouts = 1
     /\ resp = HTTP_200_OK

(* --------------------------- record ids (C19) --------------------------- *)
\* the values uuid.uuid4() may return, and the draws of one call of
\* get_personal_records
Uuids == {"u1", "u2"}
UuidDraws == [1..MaxSets -> Uuids]

\* C19: two calls with the same user, filter and parameters on the same
\* stored state return the same output, each record's id included.
C19_RepeatedCallsAgree ==
  \A u \in Users, f \in ReadFilters, first \in UuidDraws, second \in UuidDraws :
     record_ids(DB, now, u, f, 0, FullLimit, first) =
       record_ids(DB, now, u, f, 0, FullLimit, second)

(* ----------------------------- reads (C20) ------------------------------ *)
\* the calls of the five aggregators, the unknown exercise included
ReadCall(u) ==
  \/ \E e \in RequestExerciseIds : read_exercise_stats(u, e, NoFilter)
  \/ read_muscle_group_stats(u, NoFilter)
  \/ read_personal_records(u, NoFilter, 0, 1)
  \/ read_workout_overview(u, NoFilter)
  \/ \E m \in {"volume", "pace"} : read_workout_trends(u, NoFilter, m, "weekly")

\* one user logging a workout with reads of every aggregator in between
NextReads ==
  \/ Tick(DayLen, MaxTime)
  \/ create_session(1, "a", <<>>)
  \/ \E s \in SessionIds : add_exercise_to_session(1, s, 1, 1)
  \/ \E s \in SessionIds, x \in SessionExerciseIds : log_set(1, s, x, 1, 5, 100, FALSE)
  \/ \E s \in SessionIds : complete_session(1, s, NULL)
  \/ ReadCall(1)

SpecReads == Init /\ [][NextReads]_vars

\* C20: a call of any of the five aggregators, answered or NotFound, leaves
\* every stored session, session exercise, set and template row as it was.
C20_AggregatorsAreReadOnly ==
  [][\A u \in Users : ReadCall(u) => UNCHANGED <<sessionTables, templateTables>>]_vars

\* C20 witness: every session is stored and completed, a set is logged, and
\* the last answer is the NotFound of get_exercise_progress
C20_Witness ==
  /\ Len(sessions) = MaxSessions
  /\ \A s \in DOMAIN sessions : sessions[s].completed_at # NULL
  /\ sets # <<>>
  /\ resp = HTTP_404_NOT_FOUND


(* -------------------------- error signalling (C21) ---------------------- *)
\* what the aggregators other than exercise progress answer for user u
NoDataResults(u, f) ==
  [muscles  |-> MuscleStats(u, f),
   records  |-> FullRecords(u, f),
   overview |-> Overview(u, f),
   trends   |-> [m \in Metrics |-> [p \in Periods |-> get_workout_trends(DB, now, u, f, m, p)]]]

AllOk(r) ==
  /\ r.muscles.status = HTTP_200_OK
  /\ r.records.status = HTTP_200_OK
  /\ r.overview.status = HTTP_200_OK
  /\ \A m \in Metrics, p \in Periods : r.trends[m][p].status = HTTP_200_OK

HasCompletedSession(u) ==
  \E s \in DOMAIN sessions : sessions[s].user_id = u /\ sessions[s].completed_at # NULL
HasSet(u) ==
  \E i \in DOMAIN sets : sessions[SessionOfSet(DB, i)].user_id = u

NextNumbers ==
  \/ create_template(1, "a")
  \/ add_exercise_to_template(1, 1, 1, 1)
  \/ \E n \in SetNumbers : add_set_to_template_exercise(1, 1, 1, n, 8, 100, FALSE)
  \/ \E tids \in {<<>>, <<1>>} : create_session(1, "a", tids)
  \/ \E s \in SessionIds : add_exercise_to_session(1, s, 1, 1)
  \/ \E s \in SessionIds, x \in SessionExerciseIds, n \in SetNumbers :
        log_set(1, s, x, n, 5, 50, FALSE)
  \/ \E s \in SessionIds, x \in SessionExerciseIds, i \in 1..MaxSets :
        update_set(1, s, x, i, 6, NULL, NullStr)

SpecNumbers == Init /\ [][NextNumbers]_vars

UniqueSetNumbers ==
  \A i, j \in DOMAIN sets :
     (/\ sets[i].workout_session_exercise_id = sets[j].workout_session_exercise_id
      /\ sets[i].set_number = sets[j].set_number) => i = j

\* the step is a successful log_set under a set number that is already stored
LogsStoredNumber(x, n) ==
  /\ \E s \in SessionIds : log_set(1, s, x, n, 5, 50, FALSE)
  /\ resp' = HTTP_200_OK
  /\ ExistingSets(x, n) # {}

\* C22: no two sets of one session exercise carry the same set_number, and a
\* log_set under a stored set_number keeps the number of sets and writes the
\* new reps and weight into the stored row of that number, every other row
\* and that row's id, parent and number staying as they were.
C22_SetNumbersUnique ==
  /\ []UniqueSetNumbers
  /\ [][\A x \in SessionExerciseIds, n \in SetNumbers :
          LogsStoredNumber(x, n) =>
            /\ Len(sets') = Len(sets)
            /\ \A i \in DOMAIN sets :
                 IF i \in ExistingSets(x, n)
                   THEN sets'[i] = [sets[i] EXCEPT !.reps_completed = 5, !.weight = 50,
                                                   !.is_warmup = FALSE]
                   ELSE sets'[i] = sets[i]]_vars

\* C22 witness: a session exercise copied from a template holds the copied
\* set, logged in place, beside a set logged under the other number
C22_Witness ==
  \E i, j \in DOMAIN sets :
     /\ sets[i].workout_session_exercise_id = sets[j].workout_session_exercise_id
     /\ sets[i].workout_template_set_id # NULL
     /\ sets[i].reps_completed = 5
     /\ sets[j].workout_template_set_id = NULL
     /\ sets[i].set_number # sets[j].set_number


(* ------------------------------ rest timer (C23) ------------------------ *)
\* set i has no rest_start_time before the step and has one after it
RestStarted(i) ==
  /\ i \in DOMAIN sets => sets[i].rest_start_time = NULL
  /\ sets'[i].rest_start_time # NULL

\* end_rest reaches the check of rest_start_time, lines 585-590
ReachesRestCheck(u, s, x, i) ==
  /\ get_session_by_id(s, u)
  /\ sessions[s].completed_at = NULL
  /\ FindSet(i, x) /\ FindSessionExercise(x, s)

\* C23: a set gets its rest_start_time from a start_rest call only; end_rest
\* on a set without rest_start_time is answered 400 and changes no set; an
\* end_rest answered 200 found rest_start_time set and leaves rest_end_time
\* set and actual_rest_time non-null and >= 0.
C23_EndRestNeedsStartRest ==
  [][/\ \A i \in DOMAIN sets' :
          RestStarted(i) =>
            \E u \in Users, s \in SessionIds :
               start_rest(u, s, sets'[i].workout_session_exercise_id, i)
     /\ \A u \in Users, s \in SessionIds :
          end_rest(u, s, 1, 1) =>
            /\ (ReachesRestCheck(u, s, 1, 1) /\ sets[1].rest_start_time = NULL) =>
                 resp' = HTTP_400_BAD_REQUEST /\ sets' = sets
            /\ (ReachesRestCheck(u, s, 1, 1) /\ resp' = HTTP_200_OK) =>
                 /\ sets[1].rest_start_time # NULL
                 /\ sets'[1].rest_end_time # NULL
                 /\ sets'[1].actual_rest_time # NULL
                 /\ sets'[1].actual_rest_time >= 0]_vars

\* C23 witness: a rest that was started, lasted a day and was ended
C23_Witness ==
  /\ resp = HTTP_200_OK
  /\ \E i \in DOMAIN sets :
        /\ sets[i].rest_start_time # NULL
        /\ sets[i].rest_end_time = now
        /\ sets[i].actual_rest_time = DayLen * SecondsPerInstant


(* --------------------------- rest interval (C29) ------------------------ *)
\* C29: whenever a set has rest_end_time, it is not earlier than
\* rest_start_time and actual_rest_time is the whole seconds between the two.
C29_RestIntervalConsistent ==
  \A i \in DOMAIN sets :
     sets[i].rest_end_time # NULL =>
       /\ sets[i].rest_end_time >= sets[i].rest_start_time
       /\ sets[i].actual_rest_time =
            (sets[i].rest_end_time - sets[i].rest_start_time) * SecondsPerInstant


(* --------------------------- concurrency (C28) -------------------------- *)
\* two workers serving one user's requests on the same sessions at once
NextConcurrent ==
  \/ Tick(DayLen, MaxTime)
  \/ create_session(1, "a", <<>>)
  \/ \E s \in SessionIds : add_exercise_to_session(1, s, 1, 1)
  \/ \E w \in Workers, s \in SessionIds, x \in SessionExerciseIds :
        log_set_check(w, 1, s, x, 1, 5, 50, FALSE)
  \/ \E w \in Workers : log_set_commit(w)
  \/ \E w \in Workers, s \in SessionIds, x \in SessionExerciseIds, i \in 1..MaxSets :
        update_set_check(w, 1, s, x, i, 6, NULL, NullStr)
  \/ \E w \in Workers : update_set_commit(w)
  \/ \E w \in Workers, s \in SessionIds : complete_session_check(w, 1, s, NULL)
  \/ \E w \in Workers : complete_session_commit(w)

SpecConcurrent == Init /\ [][NextConcurrent]_vars

\* C28: once the completion of a session is committed, no step writes its
\* row again (completed_at is not overwritten by a second completion) and no
\* step creates or modifies a set of the session.
C28_NoWriteAfterCompletion ==
  [][\A s \in DOMAIN sessions :
        sessions[s].completed_at # NULL => SessionUntouched(s)]_vars


(* ---------------------- trends against overview (C30) ------------------- *)
FrequencyPoints(u, f, p) == get_workout_trends(DB, now, u, f, "frequency", p).data

\* C30: under one filter the frequency values of the daily, of the weekly
\* and of the monthly trend each add up to total_workouts of the overview.
C30_FrequencySumsToTotalWorkouts ==
  \A f \in TrendFilters, p \in Periods :
     \A points \in {FrequencyPoints(1, f, p)} :
        /\ \A k \in DOMAIN points : points[k].value.d = 1
        /\ SumSeq([k \in DOMAIN points |-> points[k].value.n]) = Overview(1, f).total_workouts

\* C30 witness: two workouts completed on two days of one week, beside
\* nothing else: two daily points of 1, one weekly point of 2
C30_Witness ==
  /\ Overview(1, NoFilter).total_workouts = 2
  /\ Len(FrequencyPoints(1, NoFilter, "daily")) = 2
  /\ Len(FrequencyPoints(1, NoFilter, "weekly")) = 1
  /\ FrequencyPoints(1, NoFilter, "weekly")[1].value.n = 2
  /\ resp = HTTP_200_OK


(* ----------------------- record completeness (C26) ---------------------- *)
\* C26: when a non-warmup in-window set of exercise e with a positive weight
\* and a given rep count belongs to a completed session, the unpaginated
\* record list holds a record for e and that rep count.
C26_RecordForEveryCompletedGroup ==
  \A u \in Users, f \in ReadFilters, e \in ExerciseIds :
     \A i \in ClaimSets(u, e, f) :
        (/\ sets[i].weight # NULL /\ sets[i].weight > 0
         /\ Truthy(sets[i].reps_completed)
         /\ sessions[SessionOfSet(DB, i)].completed_at # NULL) =>
          \A r \in {FullRecords(u, f)} :
             r.status = HTTP_200_OK =>
               \E k \in DOMAIN r.records :
                  /\ r.records[k].exercise_id = e
                  /\ r.records[k].reps = sets[i].reps_completed


(* ------------------------- most recent workout (C27) -------------------- *)
\* C27: with at least one workout counted, most_recent_workout is the
\* completion time of a completed in-range session none of the other
\* completed in-range sessions started after.
C27_MostRecentIsACompletion ==
  \A u \in Users, f \in ReadFilters :
     \A r \in {Overview(u, f)} :
        r.total_workouts >= 1 =>
          /\ r.most_recent_workout # NULL
          /\ \E s \in WorkoutsInRange(u, f) :
                /\ sessions[s].completed_at = r.most_recent_workout
                /\ \A t \in WorkoutsInRange(u, f) :
                      sessions[t].started_at <= sessions[s].started_at


(* ------------------------------ recent sets (C24) ----------------------- *)
\* the sessions that hold a set of ClaimSets(u, e, f)
ClaimSessions(u, e, f) == {SessionOfSet(DB, i) : i \in ClaimSets(u, e, f)}

\* the choices of up to RecentSessionCount sessions with the latest started_at
LatestSessions(S) ==
  {R \in SUBSET S :
     /\ Cardinality(R) = Min2(RecentSessionCount, Cardinality(S))
     /\ \A a \in R, b \in S \ R : sessions[a].started_at >= sessions[b].started_at}

\* entry k of recent_sets shows set i
ShowsSet(entry, i) ==
  /\ entry.date = StartedAtOfSet(i)
  /\ entry.weight = sets[i].weight
  /\ entry.reps = sets[i].reps_completed

\* C24: recent_sets shows exactly the non-warmup sets with weight and reps of
\* the up to three in-window sessions that started last among those holding
\* the exercise, and a set is flagged is_personal_record exactly when its
\* weight and reps are those of a heaviest set of the whole window.  A set
\* stored with 0 reps or 0 kg is taken as a set without reps or weight.
C24_RecentSetsAndRecordFlag ==
  \A u \in Users, e \in ExerciseIds, f \in Filters :
     \A r \in {Progress(u, e, f)} :
        (r.status = HTTP_200_OK /\ ClaimSets(u, e, f) # {}) =>
          /\ \E R \in LatestSessions(ClaimSessions(u, e, f)) :
                LET Q == {i \in ClaimSets(u, e, f) :
                            /\ SessionOfSet(DB, i) \in R
                            /\ HasVolume(DB, i)}
                IN /\ Len(r.recent_sets) = Cardinality(Q)
                   /\ \A i \in Q : \E k \in DOMAIN r.recent_sets : ShowsSet(r.recent_sets[k], i)
                   /\ \A k \in DOMAIN r.recent_sets : \E i \in Q : ShowsSet(r.recent_sets[k], i)
          /\ LET W == {i \in ClaimSets(u, e, f) : sets[i].weight # NULL}
             IN W # {} =>
                  \E m \in W :
                     /\ \A i \in W : sets[i].weight <= sets[m].weight
                     /\ \A k \in DOMAIN r.recent_sets :
                           r.recent_sets[k].is_personal_record <=>
                             /\ r.recent_sets[k].weight = sets[m].weight
                             /\ r.recent_sets[k].reps = sets[m].reps_completed


(* ------------------------- one-rep-max estimate (C25) ------------------- *)
\* the weights and rep counts the estimate is taken of
EstimateWeights == {0, 1, 50, 100}
EstimateReps == 0..36

\* one set logged over and over with every weight and rep count, its
\* session completed and the records, which carry the estimate, read
NextEstimates ==
  \/ sessions = <<>> /\ create_session(1, "a", <<>>)
  \/ session_exercises = <<>> /\ add_exercise_to_session(1, 1, 1, 1)
  \/ \E r \in EstimateReps, w \in EstimateWeights : log_set(1, 1, 1, 1, r, w, FALSE)
  \/ complete_session(1, 1, NULL)
  \/ read_personal_records(1, NoFilter, 0, MaxSets + 1)

SpecEstimates == Init /\ [][NextEstimates]_vars

Whole(w) == [n |-> w, d |-> 1]

====
